---- MODULE Spec2Model ----
(***************************************************************************)
(* Model of the enrichment cascade of finlayjack89/Resolve:                *)
(*   - AgenticEnrichmentQueue (src/agents/parallel_enrichment.py): stage   *)
(*     map, FIFO queue, progress counters, results map, worker pool;       *)
(*   - EnrichmentService.enrich_transactions_streaming                     *)
(*     (src/enrichment_service.py): the streaming orchestrator, one        *)
(*     coroutine per invocation, all invocations sharing the process-wide  *)
(*     queue returned by get_agentic_queue().                              *)
(* Confidences are integers in units of 1/10000 (0.80 is 8000).            *)
(***************************************************************************)
EXTENDS Integers, Sequences, FiniteSets, TLC

\* ------------------------------------------------------------------ bounds
\* ids the queue-level specification may submit through the queue's API
NumQIds == 2
\* cap on mark_ntropy_complete calls in the queue-level specification
MaxMarks == 3
\* ids of the worker-pool specification (one more than the pool can hold)
NumPoolIds == 6

\* longest batch of raw transactions an invocation is given (LongBatch apart)
MaxTx == 2

\* longest batch of transfer-like records
MaxTransfers == 3
\* the first day of a transfer-like record, and days added past the window
TransferDay == 10
MaxDayGap == 1

\* ------------------------------------------------------- program constants
\* batch_size = 10 of the Layer-1 loop
BatchSize == 10
\* AgenticEnrichmentQueue(max_concurrent=5): capacity of the semaphore
MaxConcurrent == 5
\* start(): num_workers = 5
NumWorkers == 5

NoneVal == "None"

\* EnrichmentStage values; "none" is an id absent from _transaction_stages
Stages ==
  {"pending", "ntropy_processing", "ntropy_done", "agentic_queued",
   "agentic_processing", "agentic_done", "complete", "failed"}

\* position of a stage in the pipeline order (failed is handled apart)
StageRank(s) ==
  CASE s = "none" -> 0
    [] s = "pending" -> 1
    [] s = "ntropy_processing" -> 2
    [] s = "ntropy_done" -> 3
    [] s = "agentic_queued" -> 4
    [] s = "agentic_processing" -> 5
    [] s = "agentic_done" -> 6
    [] s = "complete" -> 7
    [] s = "failed" -> 8

\* every transaction id of the model
Ids == 1 .. 17

\* ids of the worker-pool specification
PoolIds == 1 .. NumPoolIds

\* the invocations of enrich_transactions_streaming
Inv == {1, 2}

VARIABLES
  stages,      \* _transaction_stages: id -> stage ("none" when absent)
  queue,       \* _queue: FIFO of queued items (their transaction ids)
  progress,    \* _progress: ntropy_completed, agentic_queued, agentic_completed, total
  results,     \* _results: id -> <<result record>> (<<>> when absent)
  running,     \* _running
  inflight,    \* per id, the number of workers awaiting _enrichment_func for it
  persisting,  \* per id, the number of workers awaiting _db_upsert_func for it
  calls,       \* the queue and provider calls made by the last step, in order
  pc,          \* per invocation: where enrich_transactions_streaming is suspended
  input,       \* per invocation: raw_transactions
  sdk,         \* per invocation: self.sdk and NTROPY_AVAILABLE
  batch_start, \* per invocation: batch_start of the Layer-1 loop
  out,         \* per invocation: results, the list of output records
  stats,       \* per invocation: progress_stats
  events,      \* per invocation: the events the stream has emitted
  shadowed,    \* per invocation: `normalized` was rebound to a provider dict
  exitBy,      \* per invocation: how wait_for_completion left its loop
  reports,     \* per invocation: current and counters of each progress event
  wfNode,      \* the node of the enrichment graph that runs next
  wfIn,        \* what enrich_transaction was called with, and the environment
  wfState,     \* the EnrichmentState passed from node to node
  wfResult,    \* <<the EnrichmentResult returned by enrich_transaction>>
  wfOut,       \* the output record of the transaction, agentic result merged
  ledger,      \* the enriched records a budget analysis was computed from
  budget,      \* <<the budget analysis returned>>
  receiptsDb,  \* the rows of email_receipts (matched 0: matched_transaction_id NULL)
  hunterPc,    \* where the receipt matching job stands
  hunterReq,   \* what find_matches_for_user was asked and read
  matches,     \* the list find_matches_for_user returned
  applyPos,    \* the position of apply_matches in that list
  confArgs,    \* the arguments of a call of _calculate_ntropy_confidence
  confResult,  \* <<the confidence it returned>>
  job,         \* the entry of _enrichment_jobs of the job created
  jobTxs       \* the transactions run_enrichment_pipeline was given

qvars == <<stages, queue, progress, results, running, inflight, persisting>>
ovars == <<pc, input, sdk, batch_start, out, stats, events, shadowed, exitBy,
           reports>>
avars == <<wfNode, wfIn, wfState, wfResult, wfOut>>
bvars == <<ledger, budget>>
hvars == <<receiptsDb, hunterPc, hunterReq, matches, applyPos>>
nvars == <<confArgs, confResult>>
jvars == <<job, jobTxs>>
cvars == <<avars, bvars, hvars, nvars, jvars>>
vars == <<stages, queue, progress, results, running, inflight, persisting, calls,
          pc, input, sdk, batch_start, out, stats, events, shadowed, exitBy,
          reports, wfNode, wfIn, wfState, wfResult, wfOut, ledger, budget,
          receiptsDb, hunterPc, hunterReq, matches, applyPos, confArgs,
          confResult, job, jobTxs>>

\* a logged call: op on id, what it returned, for record idx of invocation inv
Call(op, id, ret, idx, inv) ==
  [op |-> op, id |-> id, ret |-> ret, idx |-> idx, inv |-> inv]

\* ------------------------------------------------------------ queue state
QState == [stages |-> stages, queue |-> queue, progress |-> progress]

\* workers that hold an item (and a permit of the semaphore)
RECURSIVE SumOver(_, _)
SumOver(f, S) ==
  IF S = {} THEN 0
  ELSE LET x == CHOOSE y \in S : TRUE IN f[x] + SumOver(f, S \ {x})

PersistingCount == SumOver(persisting, DOMAIN persisting)

Busy == SumOver(inflight, DOMAIN inflight) + PersistingCount

InFlightCount == SumOver(inflight, DOMAIN inflight)

\* a variant of MarkNtropyComplete that counts the id only while none is counted
MarkNtropyCompleteToggle(q, id) ==
  [q EXCEPT !.stages[id] = "ntropy_done",
            !.progress.ntropy_completed = 1 - @]

\* a variant of MarkNtropyComplete that leaves the stage of a tracked id alone
MarkNtropyCompleteOnce(q, id) ==
  [q EXCEPT !.stages[id] = IF @ = "none" THEN "ntropy_done" ELSE @,
            !.progress.ntropy_completed = @ + 1]

\* mark_ntropy_complete(transaction_id)
MarkNtropyComplete(q, id) ==
  [q EXCEPT !.stages[id] = "ntropy_done",
            !.progress.ntropy_completed = @ + 1]

\* add_transaction: the idempotency check
\* a variant of AddAccepted that refuses nothing
AddAcceptedAlways(q, id) == TRUE

AddAccepted(q, id) ==
  ~ (q.stages[id] # "none" /\ q.stages[id] \notin {"ntropy_done", "pending"})

\* add_transaction(transaction_id, ...): the queue after the call
AddTransaction(q, id) ==
  IF ~ AddAccepted(q, id) THEN q
  ELSE [q EXCEPT !.stages[id] = "agentic_queued",
                 !.progress.agentic_queued = @ + 1,
                 !.queue = Append(@, id)]

\* start(): a no-op when already running, else five fresh workers
Start ==
  /\ running' = TRUE
  /\ UNCHANGED <<inflight, persisting>>

\* a variant of Stop that clears the flag and returns without cancelling
StopWithoutCancel ==
  /\ running' = FALSE
  /\ UNCHANGED <<inflight, persisting>>

\* stop(): cancel every worker and await their termination; a cancelled
\* worker leaves the stage of the item it held untouched
Stop ==
  /\ running' = FALSE
  /\ inflight' = [i \in DOMAIN inflight |-> 0]
  /\ persisting' = [i \in DOMAIN persisting |-> 0]

\* _worker: queue.get() returns, the permit is taken, the stage is set
WorkerDequeue ==
  /\ running
  /\ queue # <<>>
  /\ Busy < NumWorkers
  /\ Busy < MaxConcurrent
  /\ LET id == Head(queue) IN
       /\ queue' = Tail(queue)
       /\ stages' = [stages EXCEPT ![id] = "agentic_processing"]
       /\ inflight' = [inflight EXCEPT ![id] = @ + 1]
  /\ calls' = <<>>
  /\ UNCHANGED <<progress, results, running, persisting>>
  /\ UNCHANGED <<ovars, cvars>>

\* result records stored in _results
\* result_dict of a sub-workflow that returned: what enrich_transaction found
\* for the transaction (3: Sherlock's answer; 6: an email receipt and a
\* subscription; otherwise nothing)
OkResult(id) ==
  CASE id = 3 -> [transaction_id |-> id, ai_confidence |-> 8500,
                  enrichment_source |-> "sherlock", is_subscription |-> FALSE,
                  needs_review |-> FALSE, error |-> FALSE]
    [] id = 6 -> [transaction_id |-> id, ai_confidence |-> 9200,
                  enrichment_source |-> "context_hunter", is_subscription |-> TRUE,
                  needs_review |-> FALSE, error |-> FALSE]
    [] OTHER -> [transaction_id |-> id, ai_confidence |-> 0,
                  enrichment_source |-> NoneVal, is_subscription |-> FALSE,
                  needs_review |-> TRUE, error |-> FALSE]

\* error_result of a sub-workflow that raised
ErrorResult(id) ==
  [transaction_id |-> id, ai_confidence |-> 0, enrichment_source |-> NoneVal,
   is_subscription |-> FALSE, needs_review |-> TRUE, error |-> TRUE]

\* _process_single_transaction: _enrichment_func returned
WorkerFinish(id) ==
  /\ inflight[id] > 0
  /\ stages' = [stages EXCEPT ![id] = "agentic_done"]
  /\ progress' = [progress EXCEPT !.agentic_completed = @ + 1]
  /\ results' = [results EXCEPT ![id] = <<OkResult(id)>>]
  /\ inflight' = [inflight EXCEPT ![id] = @ - 1]
  /\ persisting' = [persisting EXCEPT ![id] = @ + 1]
  /\ calls' = <<>>
  /\ UNCHANGED <<queue, running>>
  /\ UNCHANGED <<ovars, cvars>>

\* a variant of WorkerFail that counts the failed item as completed
WorkerFailCounted(id) ==
  /\ inflight[id] > 0
  /\ stages' = [stages EXCEPT ![id] = "failed"]
  /\ progress' = [progress EXCEPT !.agentic_completed = @ + 1]
  /\ results' = [results EXCEPT ![id] = <<ErrorResult(id)>>]
  /\ inflight' = [inflight EXCEPT ![id] = @ - 1]
  /\ calls' = <<>>
  /\ UNCHANGED <<queue, running, persisting>>
  /\ UNCHANGED <<ovars, cvars>>

\* _process_single_transaction: _enrichment_func raised
WorkerFail(id) ==
  /\ inflight[id] > 0
  /\ stages' = [stages EXCEPT ![id] = "failed"]
  /\ results' = [results EXCEPT ![id] = <<ErrorResult(id)>>]
  /\ inflight' = [inflight EXCEPT ![id] = @ - 1]
  /\ calls' = <<>>
  /\ UNCHANGED <<queue, progress, running, persisting>>
  /\ UNCHANGED <<ovars, cvars>>

\* _db_upsert_func returned (True or False) or raised: the outcome is only
\* logged, the worker goes back to queue.get()
PersistReturn(id) ==
  /\ persisting[id] > 0
  /\ persisting' = [persisting EXCEPT ![id] = @ - 1]
  /\ \E ok \in BOOLEAN : calls' = <<Call("persist", id, ok, 0, 0)>>
  /\ UNCHANGED <<stages, queue, progress, results, running, inflight>>
  /\ UNCHANGED <<ovars, cvars>>

Workers ==
  \/ WorkerDequeue
  \/ \E id \in Ids : WorkerFinish(id)
  \/ \E id \in Ids : WorkerFail(id)
  \/ \E id \in Ids : PersistReturn(id)

\* ------------------------------------------------------------- strings
\* A string of the vocabulary is known by what the code asks of it: its
\* length, whether it equals its upper-casing, and which keywords of the
\* code's keyword lists occur in its lower-casing.
StrLen(s) ==
  CASE s = "XFER TO SAVE" -> 12 [] s = "XFER FROM CUR" -> 13
    [] s = "PAYPAL *UBERTRIP" -> 16 [] s = "NETFLIX.COM" -> 11
    [] s = "KLARNA*ASOS" -> 11 [] s = "CARD PAYMENT 123" -> 16
    [] s = "Uber" -> 4 [] s = "Netflix" -> 7 [] s = "Asos" -> 4
    [] s = "transfer" -> 8 [] s = "transport" -> 9
    [] s = "entertainment" -> 13 [] s = "clothing" -> 8
    [] OTHER -> 0

IsUpper(s) ==
  s \in {"XFER TO SAVE", "XFER FROM CUR", "PAYPAL *UBERTRIP", "NETFLIX.COM",
         "KLARNA*ASOS", "CARD PAYMENT 123"}

\* keywords k with `k in s.lower()`
Keywords(s) ==
  CASE s = "PAYPAL *UBERTRIP" -> {"paypal"}
    [] s = "NETFLIX.COM" -> {"netflix"}
    [] s = "KLARNA*ASOS" -> {"klarna"}
    [] s = "CARD PAYMENT 123" -> {"payment"}
    [] s = "Netflix" -> {"netflix"}
    [] s = "transfer" -> {"transfer"}
    [] OTHER -> {}

Lower(s) ==
  CASE s = "transfer" -> "transfer" [] s = "transport" -> "transport"
    [] s = "entertainment" -> "entertainment" [] s = "clothing" -> "clothing"
    [] s = "Uber" -> "uber" [] s = "Netflix" -> "netflix" [] s = "Asos" -> "asos"
    [] OTHER -> s

\* AMBIGUITY_PENALTIES, in tenths
AmbiguityKeys ==
  {"amazon", "paypal", "tesco", "ebay", "walmart", "target",
   "general merchandise", "retail", "services", "other", "miscellaneous",
   "unknown", "uncategorized", "general", "purchase", "payment", "transfer"}

AmbiguityPenalty(k) ==
  CASE k \in {"amazon", "paypal", "tesco", "ebay", "walmart", "target",
              "other", "miscellaneous"} -> 5
    [] k \in {"general merchandise", "general", "transfer"} -> 6
    [] k \in {"retail", "services", "purchase", "payment"} -> 7
    [] k \in {"unknown", "uncategorized"} -> 3

\* payment_processors of _calculate_ntropy_confidence, in tenths
ProcessorKeys == {"paypal", "amazon", "ebay", "klarna", "clearpay", "afterpay"}

ProcessorPenalty(k) ==
  CASE k \in {"paypal", "amazon", "ebay"} -> 5
    [] k \in {"klarna", "clearpay", "afterpay"} -> 6

\* generic_labels of _calculate_ntropy_confidence
GenericLabels ==
  {"retail", "services", "general", "other", "miscellaneous", "purchase",
   "payment", "transfer", "unknown", "uncategorized"}

\* AMBIGUOUS_LABELS of parallel_enrichment.py
AmbiguousLabels ==
  {"retail", "services", "general", "other", "miscellaneous", "purchase",
   "payment", "transfer", "unknown", "uncategorized"}

DebtLabels ==
  {"loan", "mortgage", "finance", "bnpl", "buy now pay later", "credit card",
   "overdraft", "klarna", "clearpay", "afterpay", "laybuy", "paypal credit",
   "very pay", "littlewoods", "studio", "car finance", "personal loan",
   "debt collection", "debt recovery"}

FixedCostLabels ==
  {"utilities", "utility", "gas", "electric", "electricity", "water",
   "council tax", "insurance", "home insurance", "car insurance",
   "life insurance", "health insurance", "subscription", "membership", "gym",
   "streaming", "netflix", "spotify", "amazon prime", "disney+", "rent",
   "mortgage payment", "broadband", "internet", "phone", "mobile",
   "tv license", "childcare", "nursery", "school fees"}

\* CONFIDENCE_THRESHOLD = 0.80 (both modules)
ConfidenceThreshold == 8000

SetMin(S) == CHOOSE x \in S : \A y \in S : x <= y

SeqToSet(sq) == {sq[i] : i \in 1 .. Len(sq)}

\* x + 0.1 on the doubles the code reaches: 0.7 + 0.1 is 0.7999999999999999
AddTenth(x) == IF x = 7000 THEN 7999 ELSE x + 1000

\* _calculate_ntropy_confidence: the base before penalties
BaseConfidence(merchant_name, labels, is_recurring) ==
  LET b0 == 7000
      b1 == IF merchant_name # NoneVal /\ StrLen(merchant_name) >= 3
            THEN AddTenth(b0) ELSE b0
      b2 == IF \E l \in SeqToSet(labels) : Lower(l) \notin GenericLabels
            THEN AddTenth(b1) ELSE b1
      b3 == IF is_recurring THEN AddTenth(b2) ELSE b2
  IN IF b3 > 10000 THEN 10000 ELSE b3

\* _calculate_ntropy_confidence: the lowest applicable penalty, in tenths
LowestPenalty(merchant_name, labels, original_description) ==
  LET m == IF merchant_name = NoneVal THEN {}
           ELSE {AmbiguityPenalty(k) : k \in Keywords(merchant_name) \cap AmbiguityKeys}
      l == UNION {{AmbiguityPenalty(k) : k \in Keywords(lb) \cap AmbiguityKeys}
                  : lb \in SeqToSet(labels)}
      d == {ProcessorPenalty(k) : k \in Keywords(original_description) \cap ProcessorKeys}
  IN SetMin(m \cup l \cup d \cup {10})

\* _calculate_ntropy_confidence: base_confidence * lowest_penalty
CalculateNtropyConfidence(merchant_name, labels, is_recurring, original_description) ==
  (BaseConfidence(merchant_name, labels, is_recurring)
     * LowestPenalty(merchant_name, labels, original_description)) \div 10

\* needs_agentic_enrichment(ntropy_result, False, ntropy_confidence)
NeedsAgenticEnrichment(merchant_name, labels, is_recurring, ntropy_confidence) ==
  IF ntropy_confidence >= ConfidenceThreshold THEN FALSE
  ELSE
    LET has_only_ambiguous_labels ==
          \A l \in SeqToSet(labels) : Keywords(l) \cap AmbiguousLabels # {}
        merchant_unclear ==
          merchant_name = NoneVal \/ StrLen(merchant_name) < 3 \/ IsUpper(merchant_name)
    IN IF is_recurring /\ (has_only_ambiguous_labels \/ merchant_unclear) THEN TRUE
       ELSE IF has_only_ambiguous_labels /\ merchant_unclear THEN TRUE
       ELSE ntropy_confidence < 5000

\* _determine_entry_type
DetermineEntryType(transaction_type) ==
  IF transaction_type \in {"DEBIT", "STANDING_ORDER", "DIRECT_DEBIT", "FEE"}
  THEN "outgoing"
  ELSE IF transaction_type = "CREDIT" THEN "incoming" ELSE "outgoing"

\* classify_transaction(labels, is_recurring, entry_type)
ClassifyTransaction(labels, is_recurring, entry_type) ==
  LET kw == UNION {Keywords(l) : l \in SeqToSet(labels)} IN
  IF kw \cap DebtLabels # {} THEN "debt"
  ELSE IF kw \cap FixedCostLabels # {} THEN "fixed"
  ELSE IF is_recurring /\ entry_type = "outgoing" THEN "fixed"
  ELSE IF entry_type = "outgoing" THEN "discretionary"
  ELSE "income"

\* _classify_by_keywords(description, labels, is_recurring, entry_type)
ClassifyByKeywords(description, labels, is_recurring, entry_type) ==
  LET kw == Keywords(description) \cup UNION {Keywords(l) : l \in SeqToSet(labels)} IN
  IF kw \cap DebtLabels # {} THEN "debt"
  ELSE IF kw \cap FixedCostLabels # {} THEN "fixed"
  ELSE IF is_recurring /\ entry_type = "outgoing" THEN "fixed"
  ELSE IF entry_type = "outgoing" THEN "discretionary"
  ELSE "income"

\* ------------------------------------------------- transactions (inputs)
\* The raw records an invocation may receive. A record carries what the
\* aggregator delivered (id, description, amount in minor units as
\* int(abs(amount) * 100) yields it, transaction_type, the day of its
\* timestamp, provider classification) and, as `reply`, what the enrichment
\* provider answers for it (answered FALSE: the call raised or returned nothing).
FixtureIds == 1 .. 6

RawTx(id) ==
  CASE id = 1 -> [transaction_id |-> 1, description |-> "XFER TO SAVE",
                  amount_cents |-> 5000, transaction_type |-> "DEBIT", day |-> 10,
                  classification |-> <<>>,
                  reply |-> [answered |-> TRUE, merchant_name |-> NoneVal, category |-> "transfer",
                             recurrence |-> NoneVal]]
    [] id = 2 -> [transaction_id |-> 2, description |-> "XFER FROM CUR",
                  amount_cents |-> 5000, transaction_type |-> "CREDIT", day |-> 11,
                  classification |-> <<>>,
                  reply |-> [answered |-> TRUE, merchant_name |-> NoneVal, category |-> "transfer",
                             recurrence |-> NoneVal]]
    [] id = 3 -> [transaction_id |-> 3, description |-> "PAYPAL *UBERTRIP",
                  amount_cents |-> 1240, transaction_type |-> "DEBIT", day |-> 34,
                  classification |-> <<>>,
                  reply |-> [answered |-> TRUE, merchant_name |-> "Uber", category |-> "transport",
                             recurrence |-> NoneVal]]
    [] id = 5 -> [transaction_id |-> 5, description |-> "KLARNA*ASOS",
                  amount_cents |-> 2500, transaction_type |-> "DEBIT", day |-> 40,
                  classification |-> <<>>,
                  reply |-> [answered |-> TRUE, merchant_name |-> "Asos", category |-> "clothing",
                             recurrence |-> NoneVal]]
    [] id = 6 -> [transaction_id |-> 6, description |-> "CARD PAYMENT 123",
                  amount_cents |-> 799, transaction_type |-> "DEBIT", day |-> 41,
                  classification |-> <<>>,
                  reply |-> [answered |-> FALSE, merchant_name |-> NoneVal,
                             category |-> NoneVal, recurrence |-> NoneVal]]
    [] OTHER -> [transaction_id |-> id, description |-> "NETFLIX.COM",
                  amount_cents |-> 1099, transaction_type |-> "DEBIT", day |-> 61,
                  classification |-> <<>>,
                  reply |-> [answered |-> TRUE, merchant_name |-> "Netflix", category |-> "entertainment",
                             recurrence |-> "recurring"]]

\* an absent optional value is <<>>, a present one <<v>>
None == <<>>
Some(v) == <<v>>

\* -------------------------------------------------- Layer 0: ghost pairs
\* datetime.strptime(timestamp, "%Y-%m-%d") succeeds
DateOk(tx) == tx.day > 0

Abs(x) == IF x < 0 THEN 0 - x ELSE x

\* the candidates the inner loop of _detect_ghost_pairs does not skip
GhostCandidates(txs, i, processed) ==
  {j \in 1 .. Len(txs) :
     /\ txs[j].amount_cents = txs[i].amount_cents
     /\ txs[j].transaction_id # txs[i].transaction_id
     /\ txs[j].transaction_id \notin processed
     /\ DetermineEntryType(txs[j].transaction_type)
          # DetermineEntryType(txs[i].transaction_type)
     /\ DateOk(txs[j])
     /\ Abs(txs[i].day - txs[j].day) <= 2}

\* the outer loop of _detect_ghost_pairs from index i on; gp maps an id to
\* the linked id (0: not in ghost_pairs)
RECURSIVE GhostScan(_, _, _, _)
GhostScan(txs, i, gp, processed) ==
  IF i > Len(txs) THEN gp
  ELSE IF txs[i].transaction_id \in processed \/ ~ DateOk(txs[i])
          \/ GhostCandidates(txs, i, processed) = {}
       THEN GhostScan(txs, i + 1, gp, processed)
       ELSE LET j == SetMin(GhostCandidates(txs, i, processed))
                a == txs[i].transaction_id
                b == txs[j].transaction_id
            IN GhostScan(txs, i + 1,
                         [gp EXCEPT ![a] = b, ![b] = a],
                         processed \cup {a, b})

\* _detect_ghost_pairs(normalized_transactions)
DetectGhostPairs(txs) == GhostScan(txs, 1, [i \in Ids |-> 0], {})

\* ------------------------------------------------------- output records
\* NtropyOutputModel with its defaults
OutputModel(tx) ==
  [transaction_id |-> tx.transaction_id,
   merchant_clean_name |-> NoneVal,
   labels |-> <<>>,
   is_recurring |-> FALSE,
   amount_cents |-> tx.amount_cents,
   entry_type |-> DetermineEntryType(tx.transaction_type),
   budget_category |-> "discretionary",
   transaction_date |-> tx.day,
   ntropy_confidence |-> 8000,
   agentic_confidence |-> None,
   enrichment_stage |-> "ntropy_done",
   enrichment_source |-> NoneVal,
   exclude_from_analysis |-> FALSE,
   transaction_type |-> "regular",
   linked_transaction_id |-> None]

\* the record built in the ghost-pair branch
GhostOutput(tx, linked) ==
  [OutputModel(tx) EXCEPT
     !.labels = <<"transfer", "internal">>,
     !.budget_category = "transfer",
     !.ntropy_confidence = 10000,
     !.enrichment_source = "math_brain",
     !.exclude_from_analysis = TRUE,
     !.transaction_type = "transfer",
     !.linked_transaction_id = Some(linked)]

RecurringKeywords ==
  {"dd ", "direct debit", "standing order", "s/o", "subscription", "monthly",
   "recurring"}

\* _create_fallback_output(norm_tx); _fallback_classification builds the same
CreateFallbackOutput(tx) ==
  LET rec == Keywords(tx.description) \cap RecurringKeywords # {}
      et == DetermineEntryType(tx.transaction_type)
  IN [OutputModel(tx) EXCEPT
        !.labels = tx.classification,
        !.is_recurring = rec,
        !.budget_category = ClassifyByKeywords(tx.description, tx.classification, rec, et)]

\* the record built from a provider reply (Layer 1)
Layer1Labels(reply) ==
  IF reply.category = NoneVal THEN <<>> ELSE <<reply.category>>

Layer1Recurring(reply) == reply.recurrence \in {"recurring", "subscription"}

Layer1Confidence(tx) ==
  CalculateNtropyConfidence(tx.reply.merchant_name, Layer1Labels(tx.reply),
                            Layer1Recurring(tx.reply), tx.description)

Layer1Output(tx) ==
  LET labels == Layer1Labels(tx.reply)
      rec == Layer1Recurring(tx.reply)
      conf == Layer1Confidence(tx)
  IN [OutputModel(tx) EXCEPT
        !.merchant_clean_name = tx.reply.merchant_name,
        !.labels = labels,
        !.is_recurring = rec,
        !.budget_category =
           ClassifyTransaction(labels, rec, DetermineEntryType(tx.transaction_type)),
        !.ntropy_confidence = conf,
        !.enrichment_source =
           IF conf >= ConfidenceThreshold THEN "ntropy" ELSE NoneVal]

\* ----------------------------------- the agentic sub-workflow: its parts
\* CONFIDENCE_THRESHOLD of enrichment_agent.py
AgentConfidenceThreshold == 9000

\* confidences an LLM can report: any number
LlmConfidences == {0 - 5000, 3000, 8500, 9000, 15000}

\* what db_query_func can answer: it raises, no entry for the merchant,
\* entries at other prices, or an entry at this price whose confidence_score
\* is null, 1.0 or 0.85
CatalogReplies ==
  [kind : {"raises", "empty", "other_price"}, confidence : {None}]
    \cup [kind : {"hit"}, confidence : {None, Some(10000), Some(8500)}]

\* what the search request can answer: a request error, a JSON object, or
\* JSON that is not an object
SearchReplies == {"error", "results", "malformed"}

\* what the matcher's LLM can answer: the call raises, text that is not JSON,
\* or a JSON object (product_name: whether it is non-empty)
MatcherLlmReplies ==
  [kind : {"raises", "not_json"}, is_subscription : {FALSE},
   product_name : {FALSE}, confidence : {0}]
    \cup [kind : {"json"}, is_subscription : BOOLEAN,
          product_name : BOOLEAN, confidence : LlmConfidences]

\* what Sherlock's LLM can answer
SherlockReplies ==
  [kind : {"raises", "not_json"}, confidence : {0}]
    \cup [kind : {"json"}, confidence : LlmConfidences]

\* SubscriptionMatchResult (product_name, merchant_name: whether non-empty)
SubscriptionMatchResult(is_subscription, product_name, confidence, trace, merchant_name) ==
  [is_subscription |-> is_subscription, product_name |-> product_name,
   confidence |-> confidence, reasoning_trace |-> trace,
   merchant_name |-> merchant_name]

\* _check_db_catalog: the match if any, the trace, the calls made
CheckDbCatalog(query, cat, trace) ==
  IF ~ query
  THEN [match |-> None, trace |-> Append(trace, "no query function"),
        calls |-> <<>>]
  ELSE LET t == Append(trace, "checking catalog")
           c == <<Call("catalog_query", 0, cat.kind # "raises", 0, 0)>>
       IN CASE cat.kind = "raises" ->
                 [match |-> None, trace |-> Append(t, "lookup error"), calls |-> c]
            [] cat.kind = "empty" ->
                 [match |-> None, trace |-> Append(t, "no entries"), calls |-> c]
            [] cat.kind = "other_price" ->
                 [match |-> None, trace |-> Append(t, "no price match"), calls |-> c]
            [] OTHER ->
                 [match |-> Some(SubscriptionMatchResult(TRUE, TRUE, cat.confidence,
                                    Append(t, "exact match"), TRUE)),
                  trace |-> Append(t, "exact match"), calls |-> c]

\* _analyze_with_llm
AnalyzeWithLlm(llm, trace) ==
  CASE llm.kind = "raises" ->
         SubscriptionMatchResult(FALSE, FALSE, Some(0),
                                 Append(trace, "llm error"), FALSE)
    [] llm.kind = "not_json" ->
         SubscriptionMatchResult(FALSE, FALSE, Some(2000),
                                 trace \o <<"llm response", "parse failed">>, FALSE)
    [] OTHER ->
         SubscriptionMatchResult(llm.is_subscription, llm.product_name,
                                 Some(llm.confidence),
                                 trace \o <<"llm response", "llm analysis">>, TRUE)

\* _search_and_analyze after a search that answered an object or an error
SearchAndAnalyze(has_llm, search, llm, trace) ==
  LET t == Append(trace, "searching web")
      s == <<Call("web_search", 0, search = "results", 0, 0)>>
  IN IF search = "error"
     THEN [result |-> SubscriptionMatchResult(FALSE, FALSE, Some(0),
                         Append(t, "search error"), FALSE),
           calls |-> s]
     ELSE IF ~ has_llm
     THEN [result |-> SubscriptionMatchResult(FALSE, FALSE, Some(3000),
                         t \o <<"got results", "no llm">>, FALSE),
           calls |-> s]
     ELSE [result |-> AnalyzeWithLlm(llm, Append(t, "got results")),
           calls |-> Append(s, Call("llm", 0, llm.kind # "raises", 0, 0))]

\* _upsert_to_catalog: what it adds to the trace, and the calls it makes
UpsertToCatalog(upsert, up, result) ==
  IF ~ upsert
  THEN [trace |-> <<"no upsert function">>, calls |-> <<>>]
  ELSE IF ~ result.merchant_name \/ ~ result.product_name
  THEN [trace |-> <<"missing names">>, calls |-> <<>>]
  ELSE [trace |-> <<IF up THEN "upserted" ELSE "upsert failed">>,
        calls |-> <<Call("catalog_upsert", 0, up, 0, 0)>>]

\* a variant of MatchSubscription that writes whatever the confidence
MatchSubscriptionAnyConfidence(query, upsert, has_llm, cat, search, llm, up) ==
  LET db == CheckDbCatalog(query, cat, <<"starting match">>)
  IN IF db.match # None
     THEN [raised |-> FALSE, result |-> db.match, calls |-> db.calls]
     ELSE IF search = "malformed"
     THEN [raised |-> TRUE, result |-> None,
           calls |-> Append(db.calls, Call("web_search", 0, FALSE, 0, 0))]
     ELSE LET sa == SearchAndAnalyze(has_llm, search, llm, db.trace)
              r == sa.result
          IN IF r.is_subscription
             THEN LET u == UpsertToCatalog(upsert, up, r)
                  IN [raised |-> FALSE,
                      result |-> Some([r EXCEPT !.reasoning_trace = @ \o u.trace]),
                      calls |-> db.calls \o sa.calls \o u.calls]
             ELSE [raised |-> FALSE, result |-> Some(r),
                   calls |-> db.calls \o sa.calls]

\* match_subscription: raised says that it raised; otherwise the result
MatchSubscription(query, upsert, has_llm, cat, search, llm, up) ==
  LET db == CheckDbCatalog(query, cat, <<"starting match">>)
  IN IF db.match # None
     THEN [raised |-> FALSE, result |-> db.match, calls |-> db.calls]
     ELSE IF search = "malformed"
     THEN [raised |-> TRUE, result |-> None,
           calls |-> Append(db.calls, Call("web_search", 0, FALSE, 0, 0))]
     ELSE LET sa == SearchAndAnalyze(has_llm, search, llm, db.trace)
              r == sa.result
          IN IF r.is_subscription /\ r.confidence[1] >= 9000
             THEN LET u == UpsertToCatalog(upsert, up, r)
                  IN [raised |-> FALSE,
                      result |-> Some([r EXCEPT !.reasoning_trace = @ \o u.trace]),
                      calls |-> db.calls \o sa.calls \o u.calls]
             ELSE [raised |-> FALSE, result |-> Some(r),
                   calls |-> db.calls \o sa.calls]

\* the keys of context_data that matter (present or not; needs_review is
\* only ever stored as True)
EmptyContext ==
  [email_receipt |-> FALSE, subscription |-> FALSE, needs_review |-> FALSE,
   sherlock |-> FALSE]

\* initial_state of enrich_transaction
InitialState ==
  [subscription_result |-> None, email_result |-> "none", event_result |-> "none",
   reasoning_trace |-> <<>>, context_data |-> EmptyContext, ai_confidence |-> 0,
   enrichment_source |-> NoneVal, error |-> FALSE]

\* what enrich_transaction is called with and finds in its environment:
\* a merchant and a positive amount, the two catalog functions, the LLM key,
\* a mail grant with a usable service and a date, a location
AgentInputs ==
  [merchant : BOOLEAN, query : BOOLEAN, upsert : BOOLEAN, api_key : BOOLEAN,
   mail : BOOLEAN, location : BOOLEAN]

\* a node's return value: the state with its updates, its trace added to
\* the state's by the reducer of reasoning_trace
NodeReturn(st, updated, trace) ==
  [updated EXCEPT !.reasoning_trace = st.reasoning_trace \o trace]

\* subscription_matching_node, given what match_subscription did
SubscriptionMatchingOutput(st, in, m) ==
  IF ~ in.merchant
  THEN NodeReturn(st, [st EXCEPT !.subscription_result = None],
                  <<"phase 1 start", "phase 1 skip">>)
  ELSE IF m.raised
  THEN NodeReturn(st, [st EXCEPT !.subscription_result = None, !.error = TRUE],
                  <<"phase 1 start", "phase 1 error">>)
  ELSE NodeReturn(st, [st EXCEPT !.subscription_result = m.result],
                  <<"phase 1 start">> \o m.result[1].reasoning_trace
                     \o <<"phase 1 complete">>)

\* email_receipt_node, given what find_receipt answered
EmailReceiptOutput(st, in, reply) ==
  IF ~ in.mail
  THEN NodeReturn(st, [st EXCEPT !.email_result = "none"],
                  <<"phase 2 start", "phase 2 skip">>)
  ELSE NodeReturn(st, [st EXCEPT !.email_result = reply],
                  <<"phase 2 start",
                    IF reply = "found" THEN "phase 2 found" ELSE "phase 2 not found">>)

\* event_correlation_node: the placeholder finds no events
EventCorrelationOutput(st, in) ==
  IF ~ in.location
  THEN NodeReturn(st, [st EXCEPT !.event_result = "none"],
                  <<"phase 3 start", "phase 3 skip">>)
  ELSE NodeReturn(st, [st EXCEPT !.event_result = "no_events"],
                  <<"phase 3 start", "phase 3 result">>)

SetMax(S) == CHOOSE x \in S : \A y \in S : y <= x

\* merge_results_node compares the subscription confidence with the
\* threshold: a null confidence raises TypeError
MergeRaises(st) ==
  /\ st.subscription_result # None
  /\ st.subscription_result[1].is_subscription
  /\ st.subscription_result[1].confidence = None

\* merge_results_node, when it returns
MergeResultsOutput(st) ==
  LET found == st.email_result = "found"
      sub == st.subscription_result
      is_sub == sub # None /\ sub[1].is_subscription
      confidence_scores ==
        (IF found THEN {9200} ELSE {})
          \cup (IF is_sub THEN {sub[1].confidence[1]} ELSE {})
      ai_confidence ==
        IF confidence_scores # {} THEN SetMax(confidence_scores) ELSE 0
      enrichment_source ==
        IF found /\ 9200 >= AgentConfidenceThreshold THEN "context_hunter"
        ELSE IF is_sub /\ sub[1].confidence[1] >= AgentConfidenceThreshold
        THEN "context_hunter"
        ELSE NoneVal
      needs_review == ai_confidence < 8000
  IN NodeReturn(st,
       [st EXCEPT !.context_data =
                     [email_receipt |-> found, subscription |-> sub # None,
                      needs_review |-> needs_review, sherlock |-> FALSE],
                  !.ai_confidence = ai_confidence,
                  !.enrichment_source = enrichment_source],
       <<"merge start">>
         \o (IF found THEN <<"merge email receipt">> ELSE <<>>)
         \o (IF sub # None THEN <<"merge subscription">> ELSE <<>>)
         \o (IF needs_review THEN <<"merge flagged for review">> ELSE <<>>)
         \o <<"merge final">>)

\* whether sherlock_node calls the LLM
SherlockCalls(st, in) ==
  ~ (st.ai_confidence >= AgentConfidenceThreshold) /\ in.api_key

\* sherlock_node, given what the LLM answered
SherlockOutput(st, in, reply) ==
  IF st.ai_confidence >= AgentConfidenceThreshold
  THEN NodeReturn(st, st, <<"layer 3 start", "layer 3 skip confident">>)
  ELSE IF ~ in.api_key
  THEN NodeReturn(st, st, <<"layer 3 start", "layer 3 skip no key">>)
  ELSE CASE reply.kind = "raises" ->
              NodeReturn(st, st, <<"layer 3 start", "layer 3 error">>)
         [] reply.kind = "not_json" ->
              NodeReturn(st, st, <<"layer 3 start", "layer 3 parse failed">>)
         [] OTHER ->
              NodeReturn(st,
                [st EXCEPT !.context_data.sherlock = TRUE,
                           !.ai_confidence =
                              IF reply.confidence > @ THEN reply.confidence ELSE @,
                           !.enrichment_source =
                              IF reply.confidence >= 7000 THEN "sherlock" ELSE @],
                <<"layer 3 start", "layer 3 identified">>)

\* the EnrichmentResult built from the final state
EnrichmentResult(st) ==
  [is_subscription |->
     st.subscription_result # None /\ st.subscription_result[1].is_subscription,
   email_receipt_found |-> st.email_result = "found",
   context_data |-> st.context_data,
   reasoning_trace |-> st.reasoning_trace,
   ai_confidence |-> st.ai_confidence,
   enrichment_source |-> st.enrichment_source,
   needs_review |-> st.ai_confidence < 8000,
   error |-> st.error]

\* the EnrichmentResult returned when the graph raised
FatalResult ==
  [is_subscription |-> FALSE, email_receipt_found |-> FALSE,
   context_data |-> EmptyContext, reasoning_trace |-> <<"fatal error">>,
   ai_confidence |-> 0, enrichment_source |-> NoneVal, needs_review |-> TRUE,
   error |-> TRUE]

\* before enrich_transaction is called
AInit ==
  /\ wfNode = "idle"
  /\ wfIn = [merchant |-> FALSE, query |-> FALSE, upsert |-> FALSE,
             api_key |-> FALSE, mail |-> FALSE, location |-> FALSE]
  /\ wfState = InitialState
  /\ wfResult = None
  /\ wfOut = None

\* no analysis has been asked for
BInit ==
  /\ ledger = <<>>
  /\ budget = None

\* no receipt stored, no matching run
HInit ==
  /\ receiptsDb = <<>>
  /\ hunterPc = "idle"
  /\ hunterReq = [txs |-> <<>>, receipts |-> <<>>, min_confidence |-> 0, tie |-> 0]
  /\ matches = <<>>
  /\ applyPos = 1

\* _calculate_ntropy_confidence has not been called
NInit ==
  /\ confArgs = [merchant_name |-> NoneVal, labels |-> <<>>,
                 is_recurring |-> FALSE, original_description |-> NoneVal]
  /\ confResult = None

\* _enrichment_jobs is empty
JInit ==
  /\ job = [status |-> "none", transaction_ids |-> <<>>, completed |-> 0,
            total |-> 0, results |-> <<>>]
  /\ jobTxs = <<>>

CInit == AInit /\ BInit /\ HInit /\ NInit /\ JInit

\* ----------------------------------------- the queue driven through its API
QInit ==
  /\ stages = [i \in Ids |-> "none"]
  /\ queue = <<>>
  /\ progress = [total_transactions |-> 0, ntropy_completed |-> 0,
                 agentic_queued |-> 0, agentic_completed |-> 0]
  /\ results = [i \in Ids |-> <<>>]
  /\ running = FALSE
  /\ inflight = [i \in Ids |-> 0]
  /\ persisting = [i \in Ids |-> 0]
  /\ calls = <<>>

\* no invocation has been made yet
OInit ==
  /\ pc = [v \in Inv |-> "idle"]
  /\ input = [v \in Inv |-> <<>>]
  /\ sdk = [v \in Inv |-> FALSE]
  /\ batch_start = [v \in Inv |-> 0]
  /\ out = [v \in Inv |-> <<>>]
  /\ stats = [v \in Inv |-> [total_transactions |-> 0, ntropy_completed |-> 0,
                               agentic_queued |-> 0, agentic_completed |-> 0]]
  /\ events = [v \in Inv |-> <<>>]
  /\ shadowed = [v \in Inv |-> FALSE]
  /\ exitBy = [v \in Inv |-> "none"]
  /\ reports = [v \in Inv |-> <<>>]

Init == QInit /\ OInit /\ CInit

QMark(id) ==
  /\ progress.ntropy_completed < MaxMarks
  /\ LET q == MarkNtropyComplete(QState, id) IN
       /\ stages' = q.stages
       /\ progress' = q.progress
  /\ calls' = <<Call("mark", id, TRUE, 0, 0)>>
  /\ UNCHANGED <<queue, results, running, inflight, persisting>>
  /\ UNCHANGED <<ovars, cvars>>

QAdd(id) ==
  /\ LET q == AddTransaction(QState, id) IN
       /\ stages' = q.stages
       /\ progress' = q.progress
       /\ queue' = q.queue
  /\ calls' = <<Call("add", id, AddAccepted(QState, id), 0, 0)>>
  /\ UNCHANGED <<results, running, inflight, persisting>>
  /\ UNCHANGED <<ovars, cvars>>

QStart ==
  /\ ~ running
  /\ Start
  /\ calls' = <<>>
  /\ UNCHANGED <<stages, queue, progress, results>>
  /\ UNCHANGED <<ovars, cvars>>

QStop ==
  /\ running
  /\ Stop
  /\ calls' = <<>>
  /\ UNCHANGED <<stages, queue, progress, results>>
  /\ UNCHANGED <<ovars, cvars>>

QNext ==
  \/ \E id \in 1 .. NumQIds : QMark(id)
  \/ \E id \in 1 .. NumQIds : QAdd(id)
  \/ QStart
  \/ QStop
  \/ Workers

SpecQueue == Init /\ [][QNext]_vars

\* a worker can take an item: the guard of WorkerDequeue
WorkerDequeueEnabled ==
  running /\ queue # <<>> /\ Busy < NumWorkers /\ Busy < MaxConcurrent

\* the queue with its scheduling: start() is called again after a stop(), a
\* worker that can take an item infinitely often does (strong fairness of
\* WorkerDequeue, stated on its guard), and every call of _enrichment_func
\* and of _db_upsert_func ends
QueueFairness ==
  /\ WF_vars(QStart)
  /\ (<>[](~ WorkerDequeueEnabled) \/ []<><<WorkerDequeue>>_vars)
  /\ \A id \in 1 .. NumQIds :
       /\ SF_vars(WorkerFinish(id) \/ WorkerFail(id))
       /\ SF_vars(PersistReturn(id))

SpecQueueLive == SpecQueue /\ QueueFairness

\* --------------------------------- enrich_transactions_streaming (C9)
\* the raw batches an invocation may be given
ShortBatches ==
  UNION {{[i \in 1 .. n |-> RawTx(f[i])] :
            f \in {g \in [1 .. n -> FixtureIds] :
                     \A i \in 1 .. n, j \in 1 .. n : i < j => g[i] < g[j]}}
         : n \in 0 .. MaxTx}

\* one record more than a Layer-1 batch holds, all answered by the provider
LongBatch == [i \in 1 .. BatchSize + 1 |-> RawTx(6 + i)]

Batches == ShortBatches \cup {LongBatch}

Emit(v, status) == events' = [events EXCEPT ![v] = Append(@, status)]

\* the payload of a progress event: "current" and **progress_stats
Report(v, current, st) ==
  reports' = [reports EXCEPT ![v] =
                Append(@, [current |-> current,
                           ntropy_completed |-> st.ntropy_completed,
                           agentic_queued |-> st.agentic_queued,
                           agentic_completed |-> st.agentic_completed])]

Min(a, b) == IF a < b THEN a ELSE b

\* the first run of the generator: counters, get_agentic_queue(),
\* set_total_transactions(total), then the "extracting" event
FirstRun(v, B) ==
  /\ pc[v] = "idle"
  /\ \E b \in B, available \in BOOLEAN :
       /\ input' = [input EXCEPT ![v] = b]
       /\ sdk' = [sdk EXCEPT ![v] = available]
       /\ stats' = [stats EXCEPT ![v].total_transactions = Len(b)]
       /\ progress' = [progress EXCEPT !.total_transactions = Len(b)]
  /\ Emit(v, "extracting")
  /\ Report(v, 0, stats[v])
  /\ pc' = [pc EXCEPT ![v] = "normalize"]
  /\ calls' = <<>>
  /\ UNCHANGED <<stages, queue, results, running, inflight, persisting,
                 batch_start, out, shadowed, exitBy>>
  /\ UNCHANGED cvars

\* requests served one after the other: each meets the singleton queue as
\* the last one left it
InvokeFrom(v, B) ==
  /\ \A w \in Inv : w < v => pc[w] = "done"
  /\ FirstRun(v, B)

Invoke(v) == InvokeFrom(v, Batches)

\* normalisation and Layer 0, then the "detecting_transfers" event
Normalize(v) ==
  /\ pc[v] = "normalize"
  /\ Emit(v, "detecting_transfers")
  /\ Report(v, 0, stats[v])
  /\ pc' = [pc EXCEPT ![v] = "holder"]
  /\ calls' = <<>>
  /\ UNCHANGED <<qvars, input, sdk, batch_start, out, stats, shadowed, exitBy>>
  /\ UNCHANGED cvars

\* what account_holders.create can answer
HolderReplies == {"created", "already exists", "unauthorized"}

\* _create_or_get_account_holder: its return value, given the provider's
\* answer to account_holders.create
CreateOrGetAccountHolder(available, reply) ==
  IF ~ available THEN FALSE
  ELSE IF reply = "created" THEN TRUE
  ELSE reply = "already exists"

\* _create_or_get_account_holder (its return value is dropped),
\* agentic_queue.start(), then "enriching" (provider available) or the
\* "classifying" event of fallback mode
HolderAndStart(v) ==
  /\ pc[v] = "holder"
  /\ Start
  /\ Report(v, 0, stats[v])
  /\ IF sdk[v]
     THEN /\ \E reply \in HolderReplies :
               calls' = <<Call("create_holder", 0,
                               CreateOrGetAccountHolder(sdk[v], reply), 0, v)>>
          /\ Emit(v, "enriching")
          /\ pc' = [pc EXCEPT ![v] = "batch"]
     ELSE /\ calls' = <<>>
          /\ Emit(v, "classifying")
          /\ pc' = [pc EXCEPT ![v] = "fallback"]
  /\ UNCHANGED <<stages, queue, progress, results,
                 input, sdk, batch_start, out, stats, shadowed, exitBy>>
  /\ UNCHANGED cvars

BatchEnd(v) == Min(batch_start[v] + BatchSize, Len(input[v]))

\* the provider calls _enrich_concurrent issues for the current batch
ProviderCalls(v) ==
  [k \in 1 .. BatchEnd(v) - batch_start[v] |->
     Call("provider", input[v][batch_start[v] + k].transaction_id, TRUE,
          batch_start[v] + k, v)]

\* the head of the Layer-1 loop with a batch left: slice `normalized`, build
\* tx_data_list, await _enrich_concurrent
BatchCall(v) ==
  /\ pc[v] = "batch"
  /\ batch_start[v] < Len(input[v])
  /\ ~ shadowed[v]
  /\ calls' = ProviderCalls(v)
  /\ pc' = [pc EXCEPT ![v] = "await_provider"]
  /\ UNCHANGED <<qvars, input, sdk, batch_start, out, stats, events, shadowed, exitBy,
                 reports>>
  /\ UNCHANGED cvars

\* the head of the Layer-1 loop with a batch left after `normalized` was
\* rebound to a provider dict: the slice raises, generate_events emits error
BatchRaise(v) ==
  /\ pc[v] = "batch"
  /\ batch_start[v] < Len(input[v])
  /\ shadowed[v]
  /\ Emit(v, "error")
  /\ UNCHANGED reports
  /\ pc' = [pc EXCEPT ![v] = "done"]
  /\ calls' = <<>>
  /\ UNCHANGED <<qvars, input, sdk, batch_start, out, stats, shadowed, exitBy>>
  /\ UNCHANGED cvars

\* a variant of IsGhostPair that never recognises a ghost pair
IsGhostPairNever(gp, id) == FALSE

\* `norm_tx.transaction_id in ghost_pairs`
IsGhostPair(gp, id) == gp[id] # 0

\* the loop body for one record of the batch, on the running state
\* st = [q, out, stats, calls, shadowed]
ProcessRecord(st, tx, idx, gp, v) ==
  LET id == tx.transaction_id
      counted == [st.stats EXCEPT !.ntropy_completed = @ + 1]
      marked == MarkNtropyComplete(st.q, id)
      added == AddTransaction(marked, id)
      ret == AddAccepted(marked, id)
      queued == IF ret THEN [counted EXCEPT !.agentic_queued = @ + 1] ELSE counted
      markCall == Call("mark", id, TRUE, idx, v)
      addCall == Call("add", id, ret, idx, v)
  IN IF IsGhostPair(gp, id)
     THEN [st EXCEPT !.out = Append(@, GhostOutput(tx, gp[id])),
                     !.stats = counted]
     ELSE IF ~ tx.reply.answered
     THEN [st EXCEPT
             !.out = Append(@, [CreateFallbackOutput(tx) EXCEPT !.ntropy_confidence = 3000]),
             !.stats = queued,
             !.q = added,
             !.calls = @ \o <<markCall, addCall>>]
     ELSE LET conf == Layer1Confidence(tx)
              enqueue ==
                /\ ~ (conf >= ConfidenceThreshold)
                /\ NeedsAgenticEnrichment(tx.reply.merchant_name, Layer1Labels(tx.reply),
                                          Layer1Recurring(tx.reply), conf)
          IN [st EXCEPT
                !.out = Append(@, Layer1Output(tx)),
                !.shadowed = TRUE,
                !.stats = IF enqueue THEN queued ELSE counted,
                !.q = IF enqueue THEN added ELSE marked,
                !.calls = @ \o (IF enqueue THEN <<markCall, addCall>> ELSE <<markCall>>)]

RECURSIVE ProcessRecords(_, _, _, _, _, _)
ProcessRecords(st, txs, i, last, gp, v) ==
  IF i > last THEN st
  ELSE ProcessRecords(ProcessRecord(st, txs[i], i, gp, v), txs, i + 1, last, gp, v)

\* the provider answered the batch: the for loop over enriched_batch, the
\* refresh of agentic_completed from the queue, the per-batch "enriching" event
BatchProcess(v) ==
  /\ pc[v] = "await_provider"
  /\ LET st0 == [q |-> QState, out |-> out[v], stats |-> stats[v],
                 calls |-> <<>>, shadowed |-> shadowed[v]]
         st == ProcessRecords(st0, input[v], batch_start[v] + 1, BatchEnd(v),
                              DetectGhostPairs(input[v]), v)
     IN /\ stages' = st.q.stages
        /\ queue' = st.q.queue
        /\ progress' = st.q.progress
        /\ out' = [out EXCEPT ![v] = st.out]
        /\ stats' = [stats EXCEPT ![v] =
                       [st.stats EXCEPT !.agentic_completed = progress.agentic_completed]]
        /\ calls' = st.calls
        /\ shadowed' = [shadowed EXCEPT ![v] = st.shadowed]
        /\ Report(v, Len(st.out),
                  [st.stats EXCEPT !.agentic_completed = progress.agentic_completed])
  /\ batch_start' = [batch_start EXCEPT ![v] = @ + BatchSize]
  /\ Emit(v, "enriching")
  /\ pc' = [pc EXCEPT ![v] = "batch"]
  /\ UNCHANGED <<results, running, inflight, persisting, input, sdk, exitBy>>
  /\ UNCHANGED cvars

RECURSIVE FallbackClassification(_, _)
FallbackClassification(txs, i) ==
  IF i > Len(txs) THEN <<>>
  ELSE <<CreateFallbackOutput(txs[i])>> \o FallbackClassification(txs, i + 1)

\* a variant of StopAndClassify that reports the Layer-1 phase again
StopAndEnrich(v) ==
  /\ Stop
  /\ Emit(v, "enriching")
  /\ pc' = [pc EXCEPT ![v] = "classified"]

\* agentic_queue.stop() (by itself or at the end of wait_for_completion),
\* then the "classifying" event
StopAndClassify(v) ==
  /\ Stop
  /\ Emit(v, "classifying")
  /\ pc' = [pc EXCEPT ![v] = "classified"]

\* the Layer-1 loop is over: phase 3
BatchesDone(v) ==
  /\ pc[v] = "batch"
  /\ batch_start[v] >= Len(input[v])
  /\ Report(v, Len(input[v]), stats[v])
  /\ IF stats[v].agentic_queued > 0
     THEN /\ Emit(v, "agentic_enriching")
          /\ pc' = [pc EXCEPT ![v] = "wait"]
          /\ UNCHANGED <<running, inflight, persisting>>
     ELSE StopAndClassify(v)
  /\ calls' = <<>>
  /\ UNCHANGED <<stages, queue, progress, results,
                 input, sdk, batch_start, out, stats, shadowed, exitBy>>
  /\ UNCHANGED cvars

\* fallback mode: _fallback_classification, then phase 3 (nothing enqueued)
Fallback(v) ==
  /\ pc[v] = "fallback"
  /\ out' = [out EXCEPT ![v] = FallbackClassification(input[v], 1)]
  /\ stats' = [stats EXCEPT ![v].ntropy_completed = Len(input[v])]
  /\ Report(v, Len(input[v]), [stats[v] EXCEPT !.ntropy_completed = Len(input[v])])
  /\ StopAndClassify(v)
  /\ calls' = <<>>
  /\ UNCHANGED <<stages, queue, progress, results,
                 input, sdk, batch_start, shadowed, exitBy>>
  /\ UNCHANGED cvars

\* wait_for_completion: start() before the polling loop
WaitBegin(v) ==
  /\ pc[v] = "wait"
  /\ Start
  /\ pc' = [pc EXCEPT ![v] = "polling"]
  /\ calls' = <<>>
  /\ UNCHANGED <<stages, queue, progress, results,
                 input, sdk, batch_start, out, stats, events, shadowed, exitBy,
                 reports>>
  /\ UNCHANGED cvars

\* the break condition of the polling loop
Drained ==
  /\ queue = <<>>
  /\ progress.agentic_completed >= progress.agentic_queued
  /\ progress.agentic_queued > 0

\* the merge of one agentic result into an output record
MergeAgentic(r, a) ==
  LET r1 == [r EXCEPT !.agentic_confidence = Some(a.ai_confidence),
                      !.enrichment_stage = "agentic_done",
                      !.enrichment_source =
                         IF a.enrichment_source # NoneVal THEN a.enrichment_source ELSE @]
  IN IF a.ai_confidence >= 7000 /\ a.is_subscription
     THEN [r1 EXCEPT !.is_recurring = TRUE, !.budget_category = "fixed"]
     ELSE r1

\* the merge loop over results, against the snapshot of the queue's _results
MergeResults(rs, snapshot) ==
  [i \in 1 .. Len(rs) |->
     IF snapshot[rs[i].transaction_id] # <<>>
     THEN MergeAgentic(rs[i], snapshot[rs[i].transaction_id][1])
     ELSE rs[i]]

\* wait_for_completion leaves its loop (drained, or the timeout expired),
\* snapshots results and progress, stops the workers; the orchestrator
\* merges and emits "classifying"
WaitExit(v) ==
  /\ pc[v] = "polling"
  /\ exitBy' = [exitBy EXCEPT ![v] = IF Drained THEN "drained" ELSE "timeout"]
  /\ stats' = [stats EXCEPT ![v].agentic_completed = progress.agentic_completed]
  /\ Report(v, Len(input[v]),
            [stats[v] EXCEPT !.agentic_completed = progress.agentic_completed])
  /\ out' = [out EXCEPT ![v] = MergeResults(out[v], results)]
  /\ StopAndClassify(v)
  /\ calls' = <<>>
  /\ UNCHANGED <<stages, queue, progress, results,
                 input, sdk, batch_start, shadowed>>
  /\ UNCHANGED cvars

\* budget analysis and the terminal "complete" event
Complete(v) ==
  /\ pc[v] = "classified"
  /\ Emit(v, "complete")
  /\ UNCHANGED reports
  /\ pc' = [pc EXCEPT ![v] = "done"]
  /\ calls' = <<>>
  /\ UNCHANGED <<qvars, input, sdk, batch_start, out, stats, shadowed, exitBy>>
  /\ UNCHANGED cvars

Orchestrator(v) ==
  \/ Invoke(v)
  \/ Normalize(v)
  \/ HolderAndStart(v)
  \/ BatchCall(v)
  \/ BatchRaise(v)
  \/ BatchProcess(v)
  \/ BatchesDone(v)
  \/ Fallback(v)
  \/ WaitBegin(v)
  \/ WaitExit(v)
  \/ Complete(v)

Next ==
  \/ \E v \in Inv : Orchestrator(v)
  \/ Workers

Spec == Init /\ [][Next]_vars

\* ------------------------------------------ the worker pool under load
\* Each id is submitted once, the way the orchestrator submits a record:
\* mark_ntropy_complete(id) immediately followed by add_transaction(id).
PoolSubmit(id) ==
  /\ stages[id] = "none"
  /\ \A j \in PoolIds : j < id => stages[j] # "none"
  /\ LET q == AddTransaction(MarkNtropyComplete(QState, id), id) IN
       /\ stages' = q.stages
       /\ progress' = q.progress
       /\ queue' = q.queue
  /\ calls' = <<Call("mark", id, TRUE, 0, 0),
                Call("add", id, AddAccepted(MarkNtropyComplete(QState, id), id), 0, 0)>>
  /\ UNCHANGED <<results, running, inflight, persisting>>
  /\ UNCHANGED <<ovars, cvars>>

PoolNext ==
  \/ \E id \in PoolIds : PoolSubmit(id)
  \/ QStart
  \/ QStop
  \/ Workers

SpecPool == Init /\ [][PoolNext]_vars
\* ------------------------------------------- Layer 0 on transfer batches
\* Batches of transfer-like records. A record delivered without an id gets
\* str(hash(description)) as its id, so records with one description share
\* an id while amount, direction and date differ. The provider answers each
\* with a clear merchant, so that nothing but Layer 0 and Layer 1 acts.
TransferTxs ==
  {[RawTx(id) EXCEPT !.transaction_type = t, !.amount_cents = a, !.day = d,
                     !.reply = RawTx(4).reply] :
     id \in {1, 2}, t \in {"DEBIT", "CREDIT"}, a \in {5000, 2000},
     d \in {TransferDay, TransferDay + 2 + MaxDayGap}}

TransferBatches == UNION {[1 .. n -> TransferTxs] : n \in 0 .. MaxTransfers}

InvokeTransfers == InvokeFrom(1, TransferBatches)

GhostNext ==
  \/ InvokeTransfers
  \/ Normalize(1)
  \/ HolderAndStart(1)
  \/ BatchCall(1)
  \/ BatchProcess(1)
  \/ BatchesDone(1)
  \/ Fallback(1)
  \/ Complete(1)

SpecGhost == Init /\ [][GhostNext]_vars

\* ------------------------------------------------ overlapping requests
\* Two requests in flight at once on the singleton queue, each with one
\* record that Layer 1 hands to the agentic queue (3: a low-confidence
\* answer; 6: no answer). Every sub-workflow ends well within the timeout
\* of wait_for_completion: the polling loop runs out of time only when no
\* worker can take a step any more.
OverlapBatches(v) == IF v = 1 THEN {<<RawTx(3)>>} ELSE {<<RawTx(6)>>}

InvokeOverlapping(v) == FirstRun(v, OverlapBatches(v))

\* some worker is awaiting a sub-workflow or the persistence callback, or
\* can take an item from the queue
WorkersActive ==
  \/ InFlightCount > 0
  \/ PersistingCount > 0
  \/ running /\ queue # <<>>

WaitExitInTime(v) ==
  /\ Drained \/ ~ WorkersActive
  /\ WaitExit(v)

OverlapNext ==
  \/ \E v \in Inv : InvokeOverlapping(v)
  \/ \E v \in Inv : Normalize(v)
  \/ \E v \in Inv : HolderAndStart(v)
  \/ \E v \in Inv : BatchCall(v)
  \/ \E v \in Inv : BatchProcess(v)
  \/ \E v \in Inv : BatchesDone(v)
  \/ \E v \in Inv : Fallback(v)
  \/ \E v \in Inv : WaitBegin(v)
  \/ \E v \in Inv : WaitExitInTime(v)
  \/ \E v \in Inv : Complete(v)
  \/ Workers

SpecOverlap == Init /\ [][OverlapNext]_vars

\* ------------------------------------------- the agentic sub-workflow
\* enrich_transaction builds the initial state and invokes the graph
AgentStart ==
  /\ wfNode = "idle"
  /\ \E in \in AgentInputs : wfIn' = in
  /\ wfState' = InitialState
  /\ wfNode' = "subscription_matching"
  /\ calls' = <<>>
  /\ UNCHANGED <<wfResult, wfOut>>
  /\ UNCHANGED <<qvars, ovars, bvars, hvars, nvars, jvars>>

SubscriptionMatchingNode ==
  /\ wfNode = "subscription_matching"
  /\ \E cat \in CatalogReplies, search \in SearchReplies,
        llm \in MatcherLlmReplies, up \in BOOLEAN :
       LET m == MatchSubscription(wfIn.query, wfIn.upsert, wfIn.api_key,
                                  cat, search, llm, up)
       IN /\ wfState' = SubscriptionMatchingOutput(wfState, wfIn, m)
          /\ calls' = IF wfIn.merchant THEN m.calls ELSE <<>>
  /\ wfNode' = "email_receipt"
  /\ UNCHANGED <<wfIn, wfResult, wfOut>>
  /\ UNCHANGED <<qvars, ovars, bvars, hvars, nvars, jvars>>

EmailReceiptNode ==
  /\ wfNode = "email_receipt"
  /\ \E reply \in {"found", "not_found"} :
       /\ wfState' = EmailReceiptOutput(wfState, wfIn, reply)
       /\ calls' = IF wfIn.mail
                   THEN <<Call("find_receipt", 0, reply = "found", 0, 0)>>
                   ELSE <<>>
  /\ wfNode' = "event_correlation"
  /\ UNCHANGED <<wfIn, wfResult, wfOut>>
  /\ UNCHANGED <<qvars, ovars, bvars, hvars, nvars, jvars>>

EventCorrelationNode ==
  /\ wfNode = "event_correlation"
  /\ wfState' = EventCorrelationOutput(wfState, wfIn)
  /\ wfNode' = "merge_results"
  /\ calls' = <<>>
  /\ UNCHANGED <<wfIn, wfResult, wfOut>>
  /\ UNCHANGED <<qvars, ovars, bvars, hvars, nvars, jvars>>

\* merge_results_node returns, or raises: then graph.ainvoke raises and
\* enrich_transaction returns the fatal result
MergeResultsNode ==
  /\ wfNode = "merge_results"
  /\ IF MergeRaises(wfState)
     THEN /\ wfResult' = Some(FatalResult)
          /\ wfNode' = "returned"
          /\ UNCHANGED wfState
     ELSE /\ wfState' = MergeResultsOutput(wfState)
          /\ wfNode' = "sherlock"
          /\ UNCHANGED wfResult
  /\ calls' = <<>>
  /\ UNCHANGED <<wfIn, wfOut>>
  /\ UNCHANGED <<qvars, ovars, bvars, hvars, nvars, jvars>>

SherlockNode ==
  /\ wfNode = "sherlock"
  /\ \E reply \in SherlockReplies :
       /\ wfState' = SherlockOutput(wfState, wfIn, reply)
       /\ calls' = IF SherlockCalls(wfState, wfIn)
                   THEN <<Call("llm", 0, reply.kind # "raises", 0, 0)>>
                   ELSE <<>>
  /\ wfNode' = "end"
  /\ UNCHANGED <<wfIn, wfResult, wfOut>>
  /\ UNCHANGED <<qvars, ovars, bvars, hvars, nvars, jvars>>

\* the graph reached END: enrich_transaction returns
AgentReturn ==
  /\ wfNode = "end"
  /\ wfResult' = Some(EnrichmentResult(wfState))
  /\ wfNode' = "returned"
  /\ calls' = <<>>
  /\ UNCHANGED <<wfIn, wfState, wfOut>>
  /\ UNCHANGED <<qvars, ovars, bvars, hvars, nvars, jvars>>

\* the orchestrator merges the result into the transaction's output record
AgentMerged ==
  /\ wfNode = "returned"
  /\ wfOut' = Some(MergeAgentic(Layer1Output(RawTx(3)), wfResult[1]))
  /\ wfNode' = "merged"
  /\ calls' = <<>>
  /\ UNCHANGED <<wfIn, wfState, wfResult>>
  /\ UNCHANGED <<qvars, ovars, bvars, hvars, nvars, jvars>>

AgentNext ==
  \/ AgentStart
  \/ SubscriptionMatchingNode
  \/ EmailReceiptNode
  \/ EventCorrelationNode
  \/ MergeResultsNode
  \/ SherlockNode
  \/ AgentReturn
  \/ AgentMerged

SpecAgent == Init /\ [][AgentNext]_vars

\* ------------------------------------------------ the budget analysis
\* the most records a budget analysis is computed from
MaxLedger == 3

\* analysis_horizon_months of _compute_budget_breakdown
Horizon == 3

\* days are counted from the first day of a month 0; a month has MonthDays days
MonthDays == 30

\* the first day of the current month, for the days an analysis may run on
CurrentMonthStarts == {MonthDays + 1, 2 * MonthDays + 1, 3 * MonthDays + 1}

\* the batches an analysis is asked for: the fixtures and a subscription
BudgetBatches ==
  UNION {{[i \in 1 .. n |-> RawTx(f[i])] :
            f \in {g \in [1 .. n -> 1 .. 7] :
                     \A i \in 1 .. n, j \in 1 .. n : i < j => g[i] < g[j]}}
         : n \in 0 .. MaxLedger}

\* the records enrich_transactions_streaming hands to the aggregation, when
\* no agentic result is merged: Layer 0, then Layer 1 or the fallback
StreamingEnriched(txs) ==
  LET gp == DetectGhostPairs(txs)
  IN [i \in 1 .. Len(txs) |->
        IF IsGhostPair(gp, txs[i].transaction_id)
        THEN GhostOutput(txs[i], gp[txs[i].transaction_id])
        ELSE IF ~ txs[i].reply.answered
        THEN [CreateFallbackOutput(txs[i]) EXCEPT !.ntropy_confidence = 3000]
        ELSE Layer1Output(txs[i])]

\* the records enrich_transactions returns: Layer 1 or the fallback
SyncEnriched(txs) ==
  [i \in 1 .. Len(txs) |->
     IF ~ txs[i].reply.answered THEN CreateFallbackOutput(txs[i])
     ELSE Layer1Output(txs[i])]

\* the bucket the aggregation loops add a record's amount to
BudgetBucket(tx) ==
  IF tx.entry_type = "incoming" THEN "income"
  ELSE IF tx.budget_category \in {"fixed", "discretionary", "debt"}
  THEN tx.budget_category
  ELSE "none"

RECURSIVE BucketTotal(_, _, _)
\* the total of a bucket over the records from position i on
BucketTotal(txs, bucket, i) ==
  IF i > Len(txs) THEN 0
  ELSE (IF BudgetBucket(txs[i]) = bucket THEN txs[i].amount_cents ELSE 0)
         + BucketTotal(txs, bucket, i + 1)

\* the records of complete months within the analysis window
InWindow(txs, first) ==
  SelectSeq(txs, LAMBDA tx : ~ (tx.transaction_date < first - Horizon * MonthDays
                                  \/ tx.transaction_date >= first))

\* _compute_budget_breakdown(enriched), run in the month that starts on `first`
ComputeBudgetBreakdown(enriched, first) ==
  LET txs == InWindow(enriched, first)
      complete_months == (first - (first - Horizon * MonthDays)) \div MonthDays
      months == IF Min(complete_months, Horizon) > 1
                THEN Min(complete_months, Horizon) ELSE 1
      monthly_income == BucketTotal(txs, "income", 1) \div months
      monthly_fixed == BucketTotal(txs, "fixed", 1) \div months
      monthly_discretionary == BucketTotal(txs, "discretionary", 1) \div months
      monthly_debt == BucketTotal(txs, "debt", 1) \div months
      rest == monthly_income - monthly_fixed - monthly_debt
  IN [by |-> "streaming", first |-> first,
      averageMonthlyIncomeCents |-> monthly_income,
      fixedCostsCents |-> monthly_fixed,
      discretionaryCents |-> monthly_discretionary,
      debtPaymentsCents |-> Some(monthly_debt),
      safeToSpendCents |-> IF rest > 0 THEN rest ELSE 0,
      analysisMonths |-> months]

\* the budget_analysis of enrich_and_analyze_budget: no window, no debt figure
AnalyzeBudget(enriched, analysis_months) ==
  LET avg_income == BucketTotal(enriched, "income", 1) \div analysis_months
      avg_fixed == BucketTotal(enriched, "fixed", 1) \div analysis_months
      avg_discretionary ==
        BucketTotal(enriched, "discretionary", 1) \div analysis_months
  IN [by |-> "sync", first |-> 0,
      averageMonthlyIncomeCents |-> avg_income,
      fixedCostsCents |-> avg_fixed,
      discretionaryCents |-> avg_discretionary,
      debtPaymentsCents |-> None,
      safeToSpendCents |-> avg_income - avg_fixed,
      analysisMonths |-> analysis_months]

\* phase 4 of enrich_transactions_streaming: the budget_analysis of the
\* complete event
StreamingBudget ==
  /\ budget = None
  /\ \E txs \in BudgetBatches, first \in CurrentMonthStarts :
       /\ ledger' = StreamingEnriched(txs)
       /\ budget' = Some(ComputeBudgetBreakdown(StreamingEnriched(txs), first))
  /\ calls' = <<>>
  /\ UNCHANGED <<qvars, ovars, avars, hvars, nvars, jvars>>

\* enrich_and_analyze_budget
EnrichAndAnalyzeBudget ==
  /\ budget = None
  /\ \E txs \in BudgetBatches, analysis_months \in {1, Horizon} :
       /\ ledger' = SyncEnriched(txs)
       /\ budget' = Some(AnalyzeBudget(SyncEnriched(txs), analysis_months))
  /\ calls' = <<>>
  /\ UNCHANGED <<qvars, ovars, avars, hvars, nvars, jvars>>

BudgetNext ==
  \/ StreamingBudget
  \/ EnrichAndAnalyzeBudget

SpecBudget == Init /\ [][BudgetNext]_vars

\* -------------------------------------------------- the context hunter
\* the most rows email_receipts holds
MaxReceipts == 2

\* most transaction ids, and most transactions, an enrichment request holds
MaxJobIds == 2
MaxJobTxs == 2

\* the transaction id another session matches receipts to
OtherTx == 9

\* min_confidence of find_matches_for_user: the default and a stricter one
MinConfidences == {6000, 8500}

\* the rows of enriched_transactions a run may read
HunterTx(id) ==
  CASE id = 1 -> [id |-> 1, merchant_clean_name |-> "Netflix", amount_cents |-> 1099,
                  transaction_date |-> 20]
    [] id = 2 -> [id |-> 2, merchant_clean_name |-> "Tesco", amount_cents |-> 2000,
                  transaction_date |-> 19]
    [] OTHER -> [id |-> 3, merchant_clean_name |-> "Netflix", amount_cents |-> 1099,
                  transaction_date |-> 18]

\* the results of the transactions query: ORDER BY transaction_date DESC
HunterTxLists ==
  UNION {{[i \in 1 .. n |-> HunterTx(f[i])] :
            f \in {g \in [1 .. n -> 1 .. 3] :
                     \A i \in 1 .. n, j \in 1 .. n : i < j => g[i] < g[j]}}
         : n \in 0 .. 3}

\* the receipts an email sync may store
ReceiptKinds ==
  [merchant_name : {"Netflix.com", "Tesla", NoneVal},
   amount_cents : {None, Some(1100), Some(2000)},
   received_at : {None, Some(20)}]

\* calculate_merchant_similarity on these names (SequenceMatcher ratios of
\* the normalised names), in 1/10000
MerchantSimilarity(transaction_merchant, receipt_merchant) ==
  CASE receipt_merchant = NoneVal -> 0
    [] transaction_merchant = "Netflix" /\ receipt_merchant = "Netflix.com" -> 10000
    [] transaction_merchant = "Netflix" /\ receipt_merchant = "Tesla" -> 3333
    [] transaction_merchant = "Tesco" /\ receipt_merchant = "Netflix.com" -> 1667
    [] transaction_merchant = "Tesco" /\ receipt_merchant = "Tesla" -> 6000
    [] OTHER -> 0

\* calculate_amount_similarity
AmountSimilarity(transaction_amount_cents, receipt_amount_cents) ==
  IF receipt_amount_cents = None THEN 5000
  ELSE LET r == receipt_amount_cents[1]
           diff == Abs(transaction_amount_cents - r)
       IN IF transaction_amount_cents = r THEN 10000
          ELSE IF transaction_amount_cents = 0 THEN 0
          ELSE IF diff * 100 <= transaction_amount_cents THEN 9500
          ELSE IF diff * 100 <= 2 * transaction_amount_cents THEN 8500
          ELSE IF diff * 100 <= 5 * transaction_amount_cents THEN 7000
          ELSE IF diff * 100 <= 10 * transaction_amount_cents THEN 5000
          ELSE 0

\* calculate_date_similarity
DateSimilarity(transaction_date, receipt_received_at) ==
  IF receipt_received_at = None THEN 5000
  ELSE LET days_diff == receipt_received_at[1] - transaction_date
       IN IF days_diff = 0 THEN 10000
          ELSE IF days_diff = 1 THEN 9500
          ELSE IF 2 <= days_diff /\ days_diff <= 3 THEN 8500
          ELSE IF 4 <= days_diff /\ days_diff <= 7 THEN 7000
          ELSE IF 0 - 1 <= days_diff /\ days_diff < 0 THEN 8000
          ELSE IF days_diff > 7 THEN 3000
          ELSE 2000

\* the weighted confidence, in 1/1000000
WeightedConfidence(transaction, receipt) ==
  MerchantSimilarity(transaction.merchant_clean_name, receipt.merchant_name) * 40
    + AmountSimilarity(transaction.amount_cents, receipt.amount_cents) * 35
    + DateSimilarity(transaction.transaction_date, receipt.received_at) * 25

\* round(confidence, 3), in 1/10000; a value half-way between two thousandths
\* goes where the floating-point sum falls (tie: 0 down, 1 up)
Round3(confidence, tie) ==
  LET q == confidence \div 1000
      rest == confidence % 1000
  IN 10 * (IF rest > 500 \/ (rest = 500 /\ tie = 1) THEN q + 1 ELSE q)

RECURSIVE BestReceipt(_, _, _, _, _)
\* the loop of match_transaction_to_receipt from receipt i on: the position
\* of the best receipt so far (0: none) and its confidence
BestReceipt(transaction, receipts, i, best, best_confidence) ==
  IF i > Len(receipts) THEN best
  ELSE LET confidence == WeightedConfidence(transaction, receipts[i])
       IN IF confidence > best_confidence
          THEN BestReceipt(transaction, receipts, i + 1, i, confidence)
          ELSE BestReceipt(transaction, receipts, i + 1, best, best_confidence)

\* match_transaction_to_receipt
MatchTransactionToReceipt(transaction, receipts, min_confidence_threshold, tie) ==
  LET best == BestReceipt(transaction, receipts, 1, 0, 0)
  IN IF best = 0 THEN None
     ELSE LET confidence ==
                Round3(WeightedConfidence(transaction, receipts[best]), tie)
          IN IF confidence >= min_confidence_threshold
             THEN Some([receipt_id |-> receipts[best].id,
                        transaction_id |-> transaction.id,
                        confidence |-> confidence])
             ELSE None

RECURSIVE MatchLoop(_, _, _, _, _, _, _)
\* the loop of find_matches_for_user over the transactions from i on
MatchLoop(txs, receipts, i, found, matched_receipt_ids, min_confidence, tie) ==
  IF i > Len(txs) THEN found
  ELSE LET available_receipts ==
             SelectSeq(receipts, LAMBDA r : r.id \notin matched_receipt_ids)
           match == IF available_receipts = <<>> THEN None
                    ELSE MatchTransactionToReceipt(txs[i], available_receipts,
                                                   min_confidence, tie)
       IN IF match # None
          THEN MatchLoop(txs, receipts, i + 1, Append(found, match[1]),
                         matched_receipt_ids \cup {match[1].receipt_id},
                         min_confidence, tie)
          ELSE MatchLoop(txs, receipts, i + 1, found, matched_receipt_ids,
                         min_confidence, tie)

\* the sort key of ORDER BY received_at DESC (NULLs come first)
ReceivedKey(r) == IF r.received_at = None THEN 1000 ELSE r.received_at[1]

\* the results the receipts query may return: the unmatched rows, newest first
UnmatchedReceipts(db) ==
  LET rows == {db[i] : i \in {j \in 1 .. Len(db) : db[j].matched = 0}}
      n == Cardinality(rows)
  IN {s \in [1 .. n -> rows] :
        /\ \A i \in 1 .. n, j \in 1 .. n : i # j => s[i] # s[j]
        /\ \A i \in 1 .. n, j \in 1 .. n :
             i < j => ReceivedKey(s[i]) >= ReceivedKey(s[j])}

\* an email sync stores a receipt
StoreReceipt ==
  /\ Len(receiptsDb) < MaxReceipts
  /\ \E k \in ReceiptKinds :
       receiptsDb' = Append(receiptsDb,
                            [id |-> Len(receiptsDb) + 1,
                             merchant_name |-> k.merchant_name,
                             amount_cents |-> k.amount_cents,
                             received_at |-> k.received_at,
                             matched |-> 0])
  /\ calls' = <<>>
  /\ UNCHANGED <<hunterPc, hunterReq, matches, applyPos>>
  /\ UNCHANGED <<qvars, ovars, avars, bvars, nvars, jvars>>

\* another session matches an unmatched receipt
OtherSessionMatches ==
  /\ \E i \in 1 .. Len(receiptsDb) :
       /\ receiptsDb[i].matched = 0
       /\ receiptsDb' = [receiptsDb EXCEPT ![i].matched = OtherTx]
  /\ calls' = <<>>
  /\ UNCHANGED <<hunterPc, hunterReq, matches, applyPos>>
  /\ UNCHANGED <<qvars, ovars, avars, bvars, nvars, jvars>>

\* find_matches_for_user
FindMatchesForUser ==
  /\ hunterPc = "idle"
  /\ \E receipts \in UnmatchedReceipts(receiptsDb), txs \in HunterTxLists,
        min_confidence \in MinConfidences, tie \in {0, 1} :
       /\ hunterReq' = [txs |-> txs, receipts |-> receipts,
                        min_confidence |-> min_confidence, tie |-> tie]
       /\ matches' = IF receipts = <<>> \/ txs = <<>> THEN <<>>
                     ELSE MatchLoop(txs, receipts, 1, <<>>, {}, min_confidence, tie)
  /\ hunterPc' = "found"
  /\ applyPos' = 1
  /\ calls' = <<>>
  /\ UNCHANGED receiptsDb
  /\ UNCHANGED <<qvars, ovars, avars, bvars, nvars, jvars>>

\* a variant of ApplyMatch whose UPDATE does not test matched_transaction_id
ApplyMatchUnguarded ==
  /\ hunterPc = "found"
  /\ applyPos <= Len(matches)
  /\ LET m == matches[applyPos]
         hit == {i \in 1 .. Len(receiptsDb) : receiptsDb[i].id = m.receipt_id}
     IN /\ receiptsDb' = [i \in 1 .. Len(receiptsDb) |->
                            IF i \in hit
                            THEN [receiptsDb[i] EXCEPT !.matched = m.transaction_id]
                            ELSE receiptsDb[i]]
        /\ calls' = <<Call("update_receipt", m.receipt_id, hit # {}, applyPos, 0)>>
  /\ applyPos' = applyPos + 1
  /\ UNCHANGED <<hunterPc, hunterReq, matches>>
  /\ UNCHANGED <<qvars, ovars, avars, bvars, nvars, jvars>>

\* apply_matches: the UPDATE for one match of the list
ApplyMatch ==
  /\ hunterPc = "found"
  /\ applyPos <= Len(matches)
  /\ LET m == matches[applyPos]
         hit == {i \in 1 .. Len(receiptsDb) :
                   receiptsDb[i].id = m.receipt_id /\ receiptsDb[i].matched = 0}
     IN /\ receiptsDb' = [i \in 1 .. Len(receiptsDb) |->
                            IF i \in hit
                            THEN [receiptsDb[i] EXCEPT !.matched = m.transaction_id]
                            ELSE receiptsDb[i]]
        /\ calls' = <<Call("update_receipt", m.receipt_id, hit # {}, applyPos, 0)>>
  /\ applyPos' = applyPos + 1
  /\ UNCHANGED <<hunterPc, hunterReq, matches>>
  /\ UNCHANGED <<qvars, ovars, avars, bvars, nvars, jvars>>

\* apply_matches commits and returns
ApplyReturn ==
  /\ hunterPc = "found"
  /\ applyPos > Len(matches)
  /\ hunterPc' = "applied"
  /\ calls' = <<>>
  /\ UNCHANGED <<receiptsDb, hunterReq, matches, applyPos>>
  /\ UNCHANGED <<qvars, ovars, avars, bvars, nvars, jvars>>

HunterNext ==
  \/ StoreReceipt
  \/ OtherSessionMatches
  \/ FindMatchesForUser
  \/ ApplyMatch
  \/ ApplyReturn

SpecHunter == Init /\ [][HunterNext]_vars

\* ------------------------------------------- Layer-1 confidence on its own
\* provider replies and descriptions _calculate_ntropy_confidence is given
ConfidenceArgs ==
  [merchant_name : {NoneVal, "Uber", "Netflix", "Asos"},
   labels : {<<>>, <<"transport">>, <<"transfer">>, <<"transfer", "transport">>},
   is_recurring : BOOLEAN,
   original_description :
     {"PAYPAL *UBERTRIP", "NETFLIX.COM", "KLARNA*ASOS", "CARD PAYMENT 123"}]

\* one call of _calculate_ntropy_confidence
CalculateConfidenceCall ==
  /\ confResult = None
  /\ \E a \in ConfidenceArgs :
       /\ confArgs' = a
       /\ confResult' =
            Some(CalculateNtropyConfidence(a.merchant_name, a.labels,
                                           a.is_recurring, a.original_description))
  /\ calls' = <<>>
  /\ UNCHANGED <<qvars, ovars, avars, bvars, hvars, jvars>>

SpecConfidence == Init /\ [][CalculateConfidenceCall]_vars

\* --------------------------------------------- background enrichment jobs
\* transaction ids a request names; a transaction without the key
\* transaction_id is written 0
JobIds == {1, 2}

\* sequences over S of length at most n
SeqsUpTo(S, n) == UNION {[1 .. k -> S] : k \in 0 .. n}

\* AgenticEnrichmentRequest: transaction_ids, and transactions (optional)
JobRequests ==
  [transaction_ids : SeqsUpTo(JobIds, MaxJobIds),
   transactions : {None} \cup {Some(t) : t \in SeqsUpTo(JobIds \cup {0}, MaxJobTxs)}]

\* transactions_to_enrich: request.transactions if it is a non-empty list,
\* else one transaction per requested id
TransactionsToEnrich(req) ==
  IF req.transactions # None /\ req.transactions[1] # <<>>
  THEN req.transactions[1]
  ELSE req.transaction_ids

\* the transaction_id of the result of the i-th transaction:
\* tx.get("transaction_id", str(i)), the index written as a negative number
ResultId(txs, i) == IF txs[i] = 0 THEN 0 - i ELSE txs[i]

\* trigger_agentic_enrichment: create_enrichment_job and the background task
TriggerAgenticEnrichment ==
  /\ job.status = "none"
  /\ \E req \in JobRequests :
       /\ job' = [status |-> "pending", transaction_ids |-> req.transaction_ids,
                  completed |-> 0, total |-> Len(req.transaction_ids),
                  results |-> <<>>]
       /\ jobTxs' = TransactionsToEnrich(req)
  /\ calls' = <<>>
  /\ UNCHANGED <<qvars, ovars, avars, bvars, hvars, nvars>>

\* run_enrichment_pipeline starts: status running
PipelineStart ==
  /\ job.status = "pending"
  /\ job' = [job EXCEPT !.status = "running"]
  /\ calls' = <<>>
  /\ UNCHANGED jobTxs
  /\ UNCHANGED <<qvars, ovars, avars, bvars, hvars, nvars>>

\* one iteration of its loop: enrich_transaction returns or raises, a result
\* is appended either way, and the job is updated
PipelineStep ==
  /\ job.status = "running"
  /\ Len(job.results) < Len(jobTxs)
  /\ LET i == Len(job.results) + 1 IN
       job' = [job EXCEPT !.completed = i,
                          !.results = Append(@, ResultId(jobTxs, i))]
  /\ calls' = <<>>
  /\ UNCHANGED jobTxs
  /\ UNCHANGED <<qvars, ovars, avars, bvars, hvars, nvars>>

\* the loop is over: status completed
PipelineFinish ==
  /\ job.status = "running"
  /\ Len(job.results) = Len(jobTxs)
  /\ job' = [job EXCEPT !.status = "completed"]
  /\ calls' = <<>>
  /\ UNCHANGED jobTxs
  /\ UNCHANGED <<qvars, ovars, avars, bvars, hvars, nvars>>

JobNext ==
  \/ TriggerAgenticEnrichment
  \/ PipelineStart
  \/ PipelineStep
  \/ PipelineFinish

SpecJob == Init /\ [][JobNext]_vars

\* ------------------------------------------------------------ properties
Last(sq) == sq[Len(sq)]

\* the Layer-1 confidence the loop body computes for a record
RecordConfidence(tx) == IF tx.reply.answered THEN Layer1Confidence(tx) ELSE 3000

\* C1: a tracked id's stage only moves forward (pending, ntropy_done,
\* agentic_queued, agentic_processing, agentic_done) or to failed; no step of
\* the queue returns it to an earlier stage.
C1_StageOnlyAdvances ==
  [][\A id \in Ids :
       \/ stages'[id] = "failed"
       \/ StageRank(stages'[id]) >= StageRank(stages[id])]_vars

C3_AtMostWProcessing ==
  /\ Cardinality({id \in Ids : stages[id] = "agentic_processing"}) <= MaxConcurrent
  /\ InFlightCount <= MaxConcurrent

\* C4: with the provider available and answering every record, an invocation
\* ends with a complete event holding exactly one record per input
\* transaction, in input order, for any number of transactions.
C4_CompleteHoldsEveryRecord ==
  \A v \in Inv :
    (/\ pc[v] = "done"
     /\ sdk[v]
     /\ \A i \in 1 .. Len(input[v]) : input[v][i].reply.answered)
    => /\ Last(events[v]) = "complete"
       /\ Len(out[v]) = Len(input[v])
       /\ \A i \in 1 .. Len(input[v]) :
            out[v][i].transaction_id = input[v][i].transaction_id

PhaseRank(status) ==
  CASE status = "extracting" -> 1
    [] status = "detecting_transfers" -> 2
    [] status = "enriching" -> 3
    [] status = "agentic_enriching" -> 4
    [] status = "classifying" -> 5
    [] OTHER -> 6

Terminals(ev) == {i \in 1 .. Len(ev) : ev[i] \in {"complete", "error"}}

\* C5: the events of one invocation come in phase order (extracting,
\* detecting_transfers, enriching, agentic_enriching only if an id was
\* enqueued, classifying), then exactly one terminal event (complete or
\* error), and nothing follows the terminal event.
C5_EventsInPhaseOrder ==
  \A v \in Inv :
    /\ \A i \in 1 .. Len(events[v]) : \A j \in 1 .. Len(events[v]) :
         i < j => PhaseRank(events[v][i]) <= PhaseRank(events[v][j])
    /\ \A i \in 1 .. Len(events[v]) :
         events[v][i] = "agentic_enriching" => stats[v].agentic_queued > 0
    /\ Terminals(events[v]) \subseteq {Len(events[v])}
    /\ pc[v] = "done" <=> Terminals(events[v]) # {}
    /\ pc[v] # "idle" => events[v][1] = "extracting"

\* an invocation that went through every phase and completed
C5_Witness ==
  \E v \in Inv :
    /\ pc[v] = "done"
    /\ events[v] = <<"extracting", "detecting_transfers", "enriching", "enriching",
                     "agentic_enriching", "classifying", "complete">>

\* C6: when the drain timeout expires with the queue not drained, the
\* invocation still ends with complete; every id of the invocation that is
\* still agentic_queued or agentic_processing keeps that queue stage, and its
\* output record keeps enrichment_stage ntropy_done.
C6_TimeoutKeepsLayer1Stage ==
  /\ [](\A v \in Inv :
          (pc[v] = "done" /\ exitBy[v] = "timeout") => Last(events[v]) = "complete")
  /\ [][\A v \in Inv :
          (pc[v] = "polling" /\ pc'[v] = "classified" /\ exitBy'[v] = "timeout") =>
            \A i \in 1 .. Len(out[v]) :
              stages[out[v][i].transaction_id] \in {"agentic_queued", "agentic_processing"}
              => /\ stages'[out[v][i].transaction_id] = stages[out[v][i].transaction_id]
                 /\ out'[v][i].enrichment_stage = "ntropy_done"]_vars

\* C7: in every record of a complete event, ntropy_confidence >= 0.80
\* implies enrichment_source = ntropy and agentic_confidence absent or equal
\* to ntropy_confidence.
C7_ShortCircuit ==
  \A v \in Inv :
    (pc[v] = "done" /\ Last(events[v]) = "complete") =>
      \A i \in 1 .. Len(out[v]) :
        out[v][i].ntropy_confidence >= ConfidenceThreshold =>
          /\ out[v][i].enrichment_source = "ntropy"
          /\ out[v][i].agentic_confidence \in {None, Some(out[v][i].ntropy_confidence)}

C9_LowConfidenceEnqueued ==
  [][\A v \in Inv :
       (pc[v] = "await_provider" /\ pc'[v] = "batch") =>
         \A i \in batch_start[v] + 1 .. BatchEnd(v) :
           (/\ DetectGhostPairs(input[v])[input[v][i].transaction_id] = 0
            /\ RecordConfidence(input[v][i]) < ConfidenceThreshold)
           => \E k \in 1 .. Len(calls') :
                /\ calls'[k].op = "add"
                /\ calls'[k].idx = i
                /\ calls'[k].inv = v]_vars

\* C10: no provider call is issued for a ghost-pair member.
C10_NoProviderCallForGhostPairs ==
  \A k \in 1 .. Len(calls) :
    calls[k].op = "provider" =>
      DetectGhostPairs(input[calls[k].inv])[calls[k].id] = 0

\* C11: the ghost-pair relation of Layer 0 is a symmetric, irreflexive
\* partial matching, and every record of a complete event with
\* transaction_type transfer links to a record of the same output with the
\* same amount, the opposite direction, a date at most 2 days away and a
\* link back to it.
C11_GhostPairsMatch ==
  \A v \in Inv :
    (pc[v] = "done" /\ Last(events[v]) = "complete") =>
      LET gp == DetectGhostPairs(input[v]) IN
        /\ \A a \in Ids : gp[a] # 0 => (gp[a] # a /\ gp[gp[a]] = a)
        /\ \A i \in 1 .. Len(out[v]) :
             out[v][i].transaction_type = "transfer" =>
               \E j \in 1 .. Len(out[v]) :
                 /\ out[v][i].linked_transaction_id = Some(out[v][j].transaction_id)
                 /\ out[v][j].amount_cents = out[v][i].amount_cents
                 /\ out[v][j].entry_type # out[v][i].entry_type
                 /\ Abs(out[v][j].transaction_date - out[v][i].transaction_date) <= 2
                 /\ out[v][j].linked_transaction_id = Some(out[v][i].transaction_id)

\* C12: every member of a ghost pair found by Layer 0 is in the complete
\* event's output with labels [transfer, internal], budget_category transfer,
\* ntropy_confidence 1.0, source math_brain, exclude_from_analysis true,
\* transaction_type transfer and linked_transaction_id its peer, whether or
\* not the provider is available.
C12_GhostMembersTagged ==
  \A v \in Inv :
    (pc[v] = "done" /\ Last(events[v]) = "complete") =>
      LET gp == DetectGhostPairs(input[v]) IN
        \A i \in 1 .. Len(input[v]) :
          gp[input[v][i].transaction_id] # 0 =>
            /\ i <= Len(out[v])
            /\ out[v][i].transaction_id = input[v][i].transaction_id
            /\ out[v][i].labels = <<"transfer", "internal">>
            /\ out[v][i].budget_category = "transfer"
            /\ out[v][i].ntropy_confidence = 10000
            /\ out[v][i].enrichment_source = "math_brain"
            /\ out[v][i].exclude_from_analysis
            /\ out[v][i].transaction_type = "transfer"
            /\ out[v][i].linked_transaction_id = Some(gp[input[v][i].transaction_id])

\* C13: a record for which the provider is unavailable or fails (and which
\* Layer 0 did not tag) is in the output with the keyword fallback's
\* ntropy_confidence 0.3, Layer-1 stage ntropy_done or
\* later, has been handed to the agentic queue, and the other records of the
\* batch are in the output too.
C13_FailureFallsBack ==
  \A v \in Inv :
    (pc[v] = "done" /\ Last(events[v]) = "complete") =>
      /\ Len(out[v]) = Len(input[v])
      /\ \A i \in 1 .. Len(input[v]) :
           (/\ DetectGhostPairs(input[v])[input[v][i].transaction_id] = 0
            /\ (~ sdk[v] \/ ~ input[v][i].reply.answered))
           => /\ out[v][i].transaction_id = input[v][i].transaction_id
              /\ out[v][i].ntropy_confidence = 3000
              /\ out[v][i].enrichment_stage \in {"ntropy_done", "agentic_done"}
              /\ stages[input[v][i].transaction_id]
                   \in {"agentic_queued", "agentic_processing", "agentic_done", "failed"}

\* C14: across the progress events of one invocation current,
\* ntropy_completed, agentic_queued and agentic_completed never decrease, and
\* the queue's own ntropy_completed, agentic_queued and agentic_completed
\* never decrease.
C14_CountersMonotonic ==
  /\ [](\A v \in Inv :
          \A i \in 1 .. Len(reports[v]) : \A j \in 1 .. Len(reports[v]) :
            i < j => /\ reports[v][i].current <= reports[v][j].current
                     /\ reports[v][i].ntropy_completed <= reports[v][j].ntropy_completed
                     /\ reports[v][i].agentic_queued <= reports[v][j].agentic_queued
                     /\ reports[v][i].agentic_completed <= reports[v][j].agentic_completed)
  /\ [][/\ progress'.ntropy_completed >= progress.ntropy_completed
        /\ progress'.agentic_queued >= progress.agentic_queued
        /\ progress'.agentic_completed >= progress.agentic_completed]_vars

\* a second invocation whose events carried growing counters up to a
\* finished agentic item
C14_Witness ==
  /\ pc[2] = "done"
  /\ Len(reports[2]) >= 6
  /\ Last(reports[2]).current = 2
  /\ Last(reports[2]).ntropy_completed = 2
  /\ Last(reports[2]).agentic_queued >= 1
  /\ Last(reports[2]).agentic_completed >= 2

\* the ids of the records an invocation was given
InputIds(v) == {input[v][i].transaction_id : i \in 1 .. Len(input[v])}

\* C15: with two overlapping invocations, when the drain wait of one ends
\* every id it enqueued has been processed to agentic_done or failed,
\* whatever the other invocation did meanwhile.
C15_OverlapDoesNotStarve ==
  [][\A v \in Inv :
       pc[v] = "polling" /\ pc'[v] # "polling"
         => \A id \in InputIds(v) : stages'[id] \in {"agentic_done", "failed"}]_vars

\* the loop body hands the record to the agentic queue
Enqueues(tx, gp) ==
  /\ ~ IsGhostPair(gp, tx.transaction_id)
  /\ \/ ~ tx.reply.answered
     \/ /\ ~ (Layer1Confidence(tx) >= ConfidenceThreshold)
        /\ NeedsAgenticEnrichment(tx.reply.merchant_name, Layer1Labels(tx.reply),
                                  Layer1Recurring(tx.reply), Layer1Confidence(tx))

\* the ids the first invocation enqueued: it met an empty queue, so every
\* add_transaction call of its loop was accepted
FirstEnqueued ==
  IF sdk[1] /\ pc[1] \in {"wait", "polling", "classified", "done"}
  THEN {input[1][i].transaction_id :
          i \in {j \in 1 .. Len(input[1]) :
                   Enqueues(input[1][j], DetectGhostPairs(input[1]))}}
  ELSE {}

\* C16: once the first invocation has emitted complete, no step changes the
\* stage of an id it enqueued, inserts a result for it or has a worker take
\* it up (the persistence callback of an id starts in the step that stores
\* its result).
C16_NothingAfterComplete ==
  [][pc[1] = "done" /\ Last(events[1]) = "complete"
       => \A id \in FirstEnqueued :
            /\ stages'[id] = stages[id]
            /\ results'[id] = results[id]
            /\ inflight'[id] = inflight[id]]_vars

\* the items a step finishes with agentic_done: a worker comes back from
\* _enrichment_func (a cancelled worker finishes nothing)
FinishedDone ==
  {id \in Ids : running' /\ inflight'[id] < inflight[id] /\ stages'[id] = "agentic_done"}

\* C17: when the stage of an id is agentic_done or failed and no worker
\* holds the id, _results has one record under the id: a result record for
\* agentic_done, a failure record (needs_review, confidence 0) for failed;
\* agentic_completed starts at 0 and grows by one exactly with each item
\* that finishes with agentic_done.
C17_ResultsCoherent ==
  /\ progress.agentic_completed = 0
  /\ [](\A id \in Ids :
          inflight[id] = 0 /\ stages[id] \in {"agentic_done", "failed"}
            => /\ Len(results[id]) = 1
               /\ results[id][1].transaction_id = id
               /\ stages[id] = "agentic_done" => results[id][1] = OkResult(id)
               /\ stages[id] = "failed"
                    => /\ results[id][1].error
                       /\ results[id][1].needs_review
                       /\ results[id][1].ai_confidence = 0)
  /\ [][progress'.agentic_completed
          = progress.agentic_completed + Cardinality(FinishedDone)]_vars

\* one id failed, the other finished, and the failed one is not counted
C17_Witness ==
  /\ \E id \in Ids : stages[id] = "failed" /\ inflight[id] = 0
  /\ \E id \in Ids : stages[id] = "agentic_done" /\ inflight[id] = 0
  /\ progress.agentic_completed = 1

\* the workers have acted at some time: start() was called before
WorkersHaveRun ==
  \E id \in Ids : \/ stages[id] \in {"agentic_processing", "agentic_done", "failed"}
                  \/ results[id] # <<>>

\* no item leaves the queue in the step
NoDequeue == queue' = queue \/ \E id \in Ids : queue' = Append(queue, id)

\* C18: while the queue is stopped no worker holds an item or awaits the
\* persistence callback; between the return of stop() and the next start()
\* no item is dequeued, no record is inserted into _results, and a stage
\* changes only for the id of a mark_ntropy_complete or add_transaction call
\* made in the same step.
C18_StoppedWorkersIdle ==
  /\ [](~ running => InFlightCount = 0 /\ PersistingCount = 0)
  /\ [][~ running /\ ~ running'
         => /\ NoDequeue
            /\ results' = results
            /\ \A id \in Ids :
                 stages'[id] # stages[id]
                   => \E k \in 1 .. Len(calls') :
                        calls'[k].id = id /\ calls'[k].op \in {"mark", "add"}]_vars

\* C18 as stated: between the return of stop() and the next start() no item
\* is dequeued, no stage changes and no record is inserted into _results.
C18_StoppedNothingChanges ==
  [][~ running /\ ~ running' /\ WorkersHaveRun
       => NoDequeue /\ results' = results /\ stages' = stages]_vars

\* stop() has cancelled a worker that held an item, and add_transaction has
\* just queued another id on the stopped queue
C18_Witness ==
  /\ ~ running
  /\ \E id \in Ids : stages[id] = "agentic_processing" /\ inflight[id] = 0
  /\ \E k \in 1 .. Len(calls) : calls[k].op = "add" /\ calls[k].ret
  /\ queue # <<>>

\* C19: when the persistence callback of an id raises or reports failure,
\* the id is and stays at agentic_done, its result record is and stays in
\* _results, the counters are left as they are (the id stays counted), and
\* the worker is freed: it is one of the workers that can take the next item
\* of the queue. No record ever leaves _results, so the result is there when
\* the caller collects.
C19_PersistFailureHarmless ==
  /\ [][\A k \in 1 .. Len(calls') :
          calls'[k].op = "persist" /\ ~ calls'[k].ret
            => LET id == calls'[k].id IN
                 /\ stages[id] = "agentic_done" /\ stages'[id] = "agentic_done"
                 /\ results[id] = <<OkResult(id)>> /\ results'[id] = results[id]
                 /\ progress' = progress /\ progress.agentic_completed >= 1
                 /\ running' = running /\ queue' = queue
                 /\ inflight' = inflight
                 /\ persisting' = [persisting EXCEPT ![id] = @ - 1]
                 /\ Busy - 1 < NumWorkers /\ Busy - 1 < MaxConcurrent]_vars
  /\ [][\A id \in Ids : results[id] # <<>> => results'[id] # <<>>]_vars

\* the last step of invocation v got a failure from account-holder creation
HolderFailed(v) ==
  \E k \in 1 .. Len(calls) :
    calls[k].op = "create_holder" /\ calls[k].inv = v /\ ~ calls[k].ret

\* the last step of invocation v issued a Layer-1 provider call
ProviderCalled(v) ==
  \E k \in 1 .. Len(calls) : calls[k].op = "provider" /\ calls[k].inv = v

\* C20: an invocation issues provider transaction calls only after its
\* account-holder step, and after a failed account-holder creation (an
\* "already exists" answer is a success) it issues none: the step that
\* follows the failure is not one that sends the provider a transaction.
C20_HolderBeforeProvider ==
  /\ [](\A v \in Inv : ProviderCalled(v) => pc[v] = "await_provider")
  /\ [][\A v \in Inv : HolderFailed(v) => ~ ProviderCalled(v)']_vars

\* C21: every record of a complete event has 0 <= ntropy_confidence <= 1
\* and, when agentic_confidence is present, 0 <= agentic_confidence <= 1,
\* whatever the provider, the catalog and the LLM reply (here for the record
\* the sub-workflow's result was merged into)
C21_ConfidencesInRange ==
  wfOut # None =>
    /\ wfOut[1].ntropy_confidence >= 0
    /\ wfOut[1].ntropy_confidence <= 10000
    /\ wfOut[1].agentic_confidence # None =>
          /\ wfOut[1].agentic_confidence[1] >= 0
          /\ wfOut[1].agentic_confidence[1] <= 10000

\* C22: for every result of the sub-workflow, needs_review is true exactly
\* when the final confidence (after the sherlock node) is below 0.80, and the
\* needs_review marker stored in context_data agrees with the field (here
\* for the results of a graph that reached its end)
C22_NeedsReviewCoherent ==
  wfResult # None /\ wfResult[1] # FatalResult =>
    /\ wfResult[1].needs_review <=> wfResult[1].ai_confidence < 8000
    /\ wfResult[1].context_data.needs_review <=> wfResult[1].needs_review

\* C23: every budget analysis returned, by the streaming aggregator and by
\* enrich_and_analyze_budget, has safe_to_spend >= 0 and
\* income - fixed - debt >= safe_to_spend over the reported monthly averages
\* (a debt average that is not reported counts as 0)
C23_SafeToSpendBounded ==
  budget # None =>
    LET b == budget[1]
        debt == IF b.debtPaymentsCents = None THEN 0 ELSE b.debtPaymentsCents[1]
    IN /\ b.safeToSpendCents >= 0
       /\ b.averageMonthlyIncomeCents - b.fixedCostsCents - debt
            >= b.safeToSpendCents

\* the records of a ledger that are not excluded from analysis
Included(txs) == SelectSeq(txs, LAMBDA tx : ~ tx.exclude_from_analysis)

\* C24: a record with exclude_from_analysis = true (a Layer-0 transfer),
\* incoming or outgoing, contributes to none of the income, fixed,
\* discretionary and debt totals: the analysis is the one of the ledger
\* without its excluded records
C24_ExcludedNotCounted ==
  budget # None =>
    budget[1] = IF budget[1].by = "streaming"
                THEN ComputeBudgetBreakdown(Included(ledger), budget[1].first)
                ELSE AnalyzeBudget(Included(ledger), budget[1].analysisMonths)

\* the receipt ids consumed by the matches before position i
ConsumedBefore(i) == {matches[j].receipt_id : j \in 1 .. i - 1}

\* the row of the receipts query with this id
ReceiptRead(id) ==
  CHOOSE r \in {hunterReq.receipts[k] : k \in 1 .. Len(hunterReq.receipts)} : r.id = id

\* C25: in the list find_matches_for_user returns no receipt id and no
\* transaction id appears twice; transactions are taken newest first, each
\* consumes at most one receipt, the best of those not yet consumed; every
\* match has confidence >= the minimum threshold; and apply_matches never
\* re-assigns a receipt that already has a matched transaction
C25_MatchesDisjoint ==
  /\ [](\A i \in 1 .. Len(matches) :
          /\ \A j \in 1 .. Len(matches) :
               i < j => /\ matches[i].receipt_id # matches[j].receipt_id
                        /\ matches[i].transaction_id # matches[j].transaction_id
                        /\ HunterTx(matches[i].transaction_id).transaction_date
                             > HunterTx(matches[j].transaction_id).transaction_date
          /\ matches[i].confidence >= hunterReq.min_confidence
          /\ \E k \in 1 .. Len(hunterReq.receipts) :
               hunterReq.receipts[k].id = matches[i].receipt_id
          /\ \A k \in 1 .. Len(hunterReq.receipts) :
               hunterReq.receipts[k].id \notin ConsumedBefore(i) =>
                 WeightedConfidence(HunterTx(matches[i].transaction_id),
                                    hunterReq.receipts[k])
                   <= WeightedConfidence(HunterTx(matches[i].transaction_id),
                                         ReceiptRead(matches[i].receipt_id)))
  /\ [][\A i \in 1 .. Len(receiptsDb) :
          receiptsDb[i].matched # 0 =>
            receiptsDb'[i].matched = receiptsDb[i].matched]_vars

\* two transactions took a receipt each, and apply_matches met a receipt
\* another session had matched in between
C25_Witness ==
  /\ hunterPc = "applied"
  /\ Len(matches) = 2
  /\ \E i \in 1 .. Len(receiptsDb) :
       /\ receiptsDb[i].matched = OtherTx
       /\ receiptsDb[i].id \in {matches[j].receipt_id : j \in 1 .. Len(matches)}

\* how many times the last step called op
CallsOf(log, op) == Cardinality({i \in 1 .. Len(log) : log[i].op = op})

InTrace(result, line) ==
  \E i \in 1 .. Len(result.reasoning_trace) : result.reasoning_trace[i] = line

C27_NoLlmLowConfidence ==
  [][/\ wfNode = "subscription_matching"
     /\ wfIn.merchant
     /\ ~ wfIn.api_key
     /\ ~ (/\ wfState'.subscription_result # None
           /\ InTrace(wfState'.subscription_result[1], "exact match"))
     => /\ ~ wfState'.error
        /\ wfState'.subscription_result # None
        /\ ~ wfState'.subscription_result[1].is_subscription
        /\ wfState'.subscription_result[1].confidence = Some(3000)
        /\ wfState'.subscription_result[1].reasoning_trace # <<>>]_vars

\* both requests ran to their complete event on the same batch with the same
\* provider availability
SameBatchTwice ==
  /\ pc[1] = "done" /\ pc[2] = "done"
  /\ input[1] = input[2] /\ sdk[1] = sdk[2]
  /\ events[1] # <<>> /\ Last(events[1]) = "complete"
  /\ events[2] # <<>> /\ Last(events[2]) = "complete"

C29_EveryNodeRuns ==
  wfResult # None =>
    /\ InTrace(wfResult[1], "phase 1 start")
    /\ InTrace(wfResult[1], "phase 2 start")
    /\ InTrace(wfResult[1], "phase 3 start")
    /\ InTrace(wfResult[1], "merge start")
    /\ InTrace(wfResult[1], "layer 3 start")

\* C30: the sherlock node calls the LLM exactly when the confidence produced
\* by the merge node is < 0.80 and an LLM is configured; with a confidence
\* >= 0.80 it leaves the confidence and the source unchanged
C30_SherlockBelowTau ==
  [][wfNode = "sherlock" =>
       /\ CallsOf(calls', "llm") =
            IF wfState.ai_confidence < 8000 /\ wfIn.api_key THEN 1 ELSE 0
       /\ wfState.ai_confidence >= 8000 =>
            /\ wfState'.ai_confidence = wfState.ai_confidence
            /\ wfState'.enrichment_source = wfState.enrichment_source]_vars

\* C31: after the merge node, enrichment_source is context_hunter exactly
\* when the merged confidence is >= 0.80
C31_SourceAtTau ==
  wfNode = "sherlock" =>
    (wfState.enrichment_source = "context_hunter"
       <=> wfState.ai_confidence >= 8000)

\* C32: across the sherlock node the confidence never decreases, and when the
\* reply parses the source becomes sherlock exactly when the reply's
\* confidence replaced the current one; otherwise the source stays as the
\* merge node set it
C32_SherlockReplacesOnGreater ==
  [][wfNode = "sherlock" =>
       /\ wfState'.ai_confidence >= wfState.ai_confidence
       /\ wfState'.enrichment_source =
            IF /\ wfState'.context_data.sherlock
               /\ wfState'.ai_confidence > wfState.ai_confidence
            THEN "sherlock"
            ELSE wfState.enrichment_source]_vars

\* C33: the confidence set by the merge node is the maximum of the
\* contributions present, 0.92 for an email receipt found and the
\* subscription matcher's confidence whenever a subscription result exists
\* (the event placeholder contributes nothing); it is 0 only when there is
\* no contribution
C33_MergeIsMaximum ==
  wfNode = "sherlock" =>
    LET sub == wfState.subscription_result
        contributions ==
          (IF wfState.email_result = "found" THEN {9200} ELSE {})
            \cup (IF sub # None THEN {sub[1].confidence[1]} ELSE {})
    IN wfState.ai_confidence =
         IF contributions = {} THEN 0
         ELSE CHOOSE x \in contributions : \A y \in contributions : y <= x

\* C34: the Layer-1 confidence equals min(1.0, 0.70 + 0.10 for a merchant
\* name of length >= 3 + 0.10 for a label outside the generic set + 0.10 if
\* recurring) times the smallest penalty that applies (ambiguous merchant
\* name, ambiguous label, processor token in the original description), or
\* times 1 when none applies
C34_ConfidenceFormula ==
  confResult # None =>
    LET a == confArgs
        named == a.merchant_name # NoneVal /\ StrLen(a.merchant_name) >= 3
        specific == \E l \in SeqToSet(a.labels) : Lower(l) \notin GenericLabels
        sum == 7000 + (IF named THEN 1000 ELSE 0)
                 + (IF specific THEN 1000 ELSE 0)
                 + (IF a.is_recurring THEN 1000 ELSE 0)
        penalty == LowestPenalty(a.merchant_name, a.labels, a.original_description)
    IN confResult[1] = (Min(10000, sum) * penalty) \div 10

\* C35: when the sub-workflow of an enqueued id raised, so that the queue
\* holds stage failed and a failure record for it, the record of that id in
\* the complete event carries enrichment_stage failed
C35_FailedStageReported ==
  [][\A v \in Inv :
       (pc[v] = "classified" /\ pc'[v] = "done") =>
         \A i \in 1 .. Len(out[v]) :
           LET id == out[v][i].transaction_id
           IN (/\ stages[id] = "failed"
               /\ results[id] # <<>>
               /\ results[id][1].error)
              => out[v][i].enrichment_stage = "failed"]_vars

\* C36: wait_for_completion returns before its timeout as soon as the
\* internal queue is empty and every enqueued id has reached agentic_done or
\* failed: it never leaves by its timeout in such a state
C36_DrainEndsOnFailed ==
  [][\A v \in Inv :
       (pc[v] = "polling" /\ pc'[v] = "classified" /\ exitBy'[v] = "timeout") =>
         ~ (/\ queue = <<>>
            /\ \A id \in Ids :
                 stages[id] \notin {"agentic_queued", "agentic_processing"})]_vars

\* C37: every id accepted by add_transaction eventually reaches agentic_done
\* or failed, workers being started again after a stop and every
\* sub-workflow call ending
C37_AcceptedEventuallyDone ==
  \A id \in 1 .. NumQIds :
    (stages[id] = "agentic_queued") ~> (stages[id] \in {"agentic_done", "failed"})

\* C38: at no time is a transaction id present more than once in the internal
\* queue, or awaited by two workers at once, whatever mark_ntropy_complete
\* and add_transaction calls were made
C38_IdQueuedOnce ==
  /\ \A i, j \in 1 .. Len(queue) : queue[i] = queue[j] => i = j
  /\ \A id \in Ids : inflight[id] <= 1

\* C39: in every event enrich_transactions_streaming emits,
\* agentic_completed <= agentic_queued and ntropy_completed <=
\* total_transactions, also when the queue has served earlier invocations
C39_EventCountersBounded ==
  \A v \in Inv :
    \A i \in 1 .. Len(reports[v]) :
      /\ reports[v][i].agentic_completed <= reports[v][i].agentic_queued
      /\ reports[v][i].ntropy_completed <= Len(input[v])

JobRank(status) ==
  CASE status = "none" -> 0 [] status = "pending" -> 1
    [] status = "running" -> 2 [] OTHER -> 3

Occurrences(sq, x) == Cardinality({k \in 1 .. Len(sq) : sq[k] = x})

\* C40: the status of an enrichment job only moves pending -> running ->
\* completed (or failed); completed never decreases and 0 <= completed <=
\* total; when the status is completed, completed = total and results holds
\* exactly one entry per requested transaction id
C40_JobCounters ==
  /\ [](/\ 0 <= job.completed /\ job.completed <= job.total
        /\ job.status = "completed" =>
             /\ job.completed = job.total
             /\ Len(job.results) = Len(job.transaction_ids)
             /\ \A x \in JobIds :
                  Occurrences(job.results, x) = Occurrences(job.transaction_ids, x))
  /\ [][/\ JobRank(job'.status) >= JobRank(job.status)
        /\ job'.completed >= job.completed]_vars

====
